---------------------------- MODULE Spec2Model ----------------------------
(***************************************************************************)
(* A model of the optical stage of the SIMPA pipeline:                     *)
(*   - run_optical_forward_model (optical_modelling.py), step by step;     *)
(*   - PencilBeamIlluminationGeometry.get_mcx_illuminator_definition;      *)
(*   - MCXAdapter (forward_model, get_mcx_config, parse_pmcx_results,      *)
(*     volumes_to_mm);                                                     *)
(*   - assert_array_well_defined (data_sanity_testing.py);                 *)
(*   - SensorDegradation (run, check_input, norm_time_series).             *)
(* Floating point numbers are modelled as exact fractions n/d; d = 0       *)
(* encodes the non-finite values numpy produces (1/0 = inf, -1/0 = -inf,   *)
(* 0/0 = nan).  The frame count int(time / dt) of get_mcx_config, the       *)
(* position probe_position_mm / spacing + 0.5 of the pencil beam and the   *)
(* initial pressure are computed on IEEE-754 doubles, as Python and numpy  *)
(* compute them; the stacked volume of get_mcx_config is cast to float32.  *)
(***************************************************************************)
EXTENDS Integers, Naturals, Sequences, FiniteSets, TLC

(***************************************************************************)
(* Bounds of the model.                                                    *)
(***************************************************************************)
NVoxels == 2
MaxAbsorption == 2

(***************************************************************************)
(* Numbers.                                                                *)
(***************************************************************************)
AbsInt(x) == IF x < 0 THEN -x ELSE x

Sign(x) == IF x < 0 THEN -1 ELSE IF x = 0 THEN 0 ELSE 1

RECURSIVE GCD(_, _)
GCD(a, b) == IF b = 0 THEN a ELSE GCD(b, a % b)

\* the fraction n/d in lowest terms with d >= 0; d = 0 is inf, -inf or nan
Norm(n, d) ==
    IF d = 0 THEN [n |-> Sign(n), d |-> 0]
    ELSE LET g == GCD(AbsInt(n), AbsInt(d))
         IN  [n |-> Sign(d) * Sign(n) * (AbsInt(n) \div g), d |-> AbsInt(d) \div g]

Num(i) == [n |-> i, d |-> 1]

IsNan(a) == a.d = 0 /\ a.n = 0

IsFinite(a) == a.d # 0

\* the product, cancelling common factors before multiplying
RMul(a, b) ==
    IF a.d = 0 \/ b.d = 0 THEN Norm(a.n * b.n, 0)
    ELSE LET g1 == GCD(AbsInt(a.n), b.d)
             g2 == GCD(AbsInt(b.n), a.d)
         IN  Norm((a.n \div g1) * (b.n \div g2), (a.d \div g2) * (b.d \div g1))

RInv(b) ==
    IF b.n = 0 THEN (IF b.d = 0 THEN [n |-> 0, d |-> 0] ELSE [n |-> 1, d |-> 0])
    ELSE Norm(Sign(b.n) * b.d, AbsInt(b.n))

RDiv(a, b) == RMul(a, RInv(b))

RAdd(a, b) ==
    IF IsNan(a) \/ IsNan(b) THEN [n |-> 0, d |-> 0]
    ELSE IF a.d = 0 /\ b.d = 0 THEN (IF a.n = b.n THEN a ELSE [n |-> 0, d |-> 0])
    ELSE IF a.d = 0 THEN a
    ELSE IF b.d = 0 THEN b
    ELSE Norm(a.n * b.d + b.n * a.d, a.d * b.d)

RSub(a, b) == RAdd(a, RMul(Num(-1), b))

\* a < b as IEEE compares: false when either side is nan
RLess(a, b) ==
    IF IsNan(a) \/ IsNan(b) THEN FALSE
    ELSE IF a.d = 0 /\ b.d = 0 THEN a.n < b.n
    ELSE a.n * b.d < b.n * a.d

(***************************************************************************)
(* IEEE-754 doubles, for the expressions whose rounding shows: int(time /  *)
(* dt) at line 109 and the float32 cast at line 99 of the adapter,         *)
(* probe_position_mm / spacing + 0.5 at line 20 of the pencil beam and the *)
(* pressure at lines 57-69 of run_optical_forward_model.  A positive       *)
(* double is m * 2^e with                                                  *)
(* 2^52 <= m < 2^53; m is kept as two limbs of 27 bits, [hi, lo] standing  *)
(* for hi * 2^27 + lo.  Doubles below 2^-1022 (subnormals) are not         *)
(* modelled.                                                               *)
(***************************************************************************)
LimbBits == 27
LimbBase == 134217728
MantissaBits == 53
HiddenBitHi == 33554432

Big(i) == [hi |-> i \div LimbBase, lo |-> i % LimbBase]

\* 2 * a + bit
BigDouble(a, bit) ==
    LET l == 2 * a.lo + bit
    IN  [hi |-> 2 * a.hi + (l \div LimbBase), lo |-> l % LimbBase]

BigLess(a, b) == a.hi < b.hi \/ (a.hi = b.hi /\ a.lo < b.lo)

\* a - b for a >= b
BigSub(a, b) ==
    IF a.lo >= b.lo THEN [hi |-> a.hi - b.hi, lo |-> a.lo - b.lo]
    ELSE [hi |-> a.hi - b.hi - 1, lo |-> a.lo + LimbBase - b.lo]

BigInc(a) ==
    IF a.lo + 1 = LimbBase THEN [hi |-> a.hi + 1, lo |-> 0]
    ELSE [hi |-> a.hi, lo |-> a.lo + 1]

\* long division of (m + r / b) * 2^e: one more bit of the quotient, unless
\* the mantissa has its 53 bits
NextBit(st) ==
    LET r2 == BigDouble(st.r, 0)
    IN  IF st.m.hi >= HiddenBitHi THEN st
        ELSE IF BigLess(r2, st.b)
        THEN [m |-> BigDouble(st.m, 0), r |-> r2, b |-> st.b, e |-> st.e - 1]
        ELSE [m |-> BigDouble(st.m, 1), r |-> BigSub(r2, st.b), b |-> st.b, e |-> st.e - 1]

RECURSIVE FillMantissa(_)
FillMantissa(st) ==
    IF st.m.hi >= HiddenBitHi THEN st
    ELSE FillMantissa(NextBit(NextBit(NextBit(NextBit(
                      NextBit(NextBit(NextBit(NextBit(st)))))))))

\* a mantissa m of 53 bits with the rest r / b of the division, rounded: up
\* when the rest is above one half, or is one half and m is odd
RoundFilled(st) ==
    LET up == BigLess(st.b, BigDouble(st.r, 0))
              \/ (BigDouble(st.r, 0) = st.b /\ st.m.lo % 2 = 1)
    IN  IF up /\ BigInc(st.m).hi = 2 * HiddenBitHi
        THEN [m |-> [hi |-> HiddenBitHi, lo |-> 0], e |-> st.e + 1]
        ELSE [m |-> IF up THEN BigInc(st.m) ELSE st.m, e |-> st.e]

\* the double nearest to (m + r / b) * 2^e, ties to the even mantissa, for
\* 0 < m + r / b < 2^53 and r < b
RoundToDouble(m, r, b, e) ==
    RoundFilled(FillMantissa([m |-> m, r |-> r, b |-> b, e |-> e]))

\* the float a settings value n / d > 0 is stored as
ToDouble(n, d) == RoundToDouble(Big(n \div d), Big(n % d), Big(d), 0)

\* a / b of two positive doubles: the quotient of the mantissas is in (1/2, 2)
DivDouble(a, b) ==
    IF BigLess(a.m, b.m) THEN RoundToDouble(Big(0), a.m, b.m, a.e - b.e)
    ELSE RoundToDouble(Big(1), BigSub(a.m, b.m), b.m, a.e - b.e)

RECURSIVE TwoTo(_)
TwoTo(k) == IF k = 0 THEN 1 ELSE 2 * TwoTo(k - 1)

\* int(q) of a positive double below 2^31
IntOfDouble(q) ==
    LET s == 0 - q.e
    IN  IF s >= MantissaBits THEN 0
        ELSE IF s >= LimbBits THEN q.m.hi \div TwoTo(s - LimbBits)
        ELSE q.m.hi * TwoTo(LimbBits - s) + (q.m.lo \div TwoTo(s))

TwoTo52 == [hi |-> HiddenBitHi, lo |-> 0]

TwoTo53 == [hi |-> 2 * HiddenBitHi, lo |-> 0]

\* 2^j for j up to 57
BigTwoTo(j) ==
    IF j < LimbBits THEN [hi |-> 0, lo |-> TwoTo(j)]
    ELSE [hi |-> TwoTo(j - LimbBits), lo |-> 0]

BigAdd(a, b) ==
    LET l == a.lo + b.lo
    IN  [hi |-> a.hi + b.hi + (l \div LimbBase), lo |-> l % LimbBase]

\* x \div 2^k for 0 <= k <= 54
BigShiftRight(x, k) ==
    IF k <= LimbBits
    THEN [hi |-> x.hi \div TwoTo(k),
          lo |-> (x.hi % TwoTo(k)) * TwoTo(LimbBits - k) + (x.lo \div TwoTo(k))]
    ELSE [hi |-> 0, lo |-> x.hi \div TwoTo(k - LimbBits)]

\* x % 2^k for 0 <= k <= 54
BigLowBits(x, k) ==
    IF k <= LimbBits THEN [hi |-> 0, lo |-> x.lo % TwoTo(k)]
    ELSE [hi |-> x.hi % TwoTo(k - LimbBits), lo |-> x.lo]

\* x / 2^k rounded to the nearest integer, ties to the even one, for
\* x < 2^54 and k >= 1
RoundShift(x, k) ==
    IF k > 2 * LimbBits THEN Big(0)
    ELSE LET q == BigShiftRight(x, k)
             r == BigLowBits(x, k)
             half == BigTwoTo(k - 1)
         IN  IF BigLess(r, half) THEN q
             ELSE IF BigLess(half, r) THEN BigInc(q)
             ELSE IF q.lo % 2 = 1 THEN BigInc(q) ELSE q

\* the largest binary exponent of a finite double: 2^1024 and beyond are inf
MaxBinaryExponent == 1023

\* a double: nan, inf or -inf, or sign * m * 2^e with sign 0 for zero
NaN == [cls |-> "nan", sign |-> 0, m |-> Big(0), e |-> 0]

Inf(sign) == [cls |-> "inf", sign |-> sign, m |-> Big(0), e |-> 0]

Zero == [cls |-> "finite", sign |-> 0, m |-> Big(0), e |-> 0]

\* sign * M * 2^e for 2^52 <= M <= 2^53, with overflow to inf
Finite(sign, M, e) ==
    LET m == IF M = TwoTo53 THEN TwoTo52 ELSE M
        e1 == IF M = TwoTo53 THEN e + 1 ELSE e
    IN  IF e1 + MantissaBits - 1 > MaxBinaryExponent THEN Inf(sign)
        ELSE [cls |-> "finite", sign |-> sign, m |-> m, e |-> e1]

\* the binary exponent x of a value written n / d * 2^x; 0 when not written
BinaryExponent(v) == IF "x" \in DOMAIN v THEN v.x ELSE 0

\* sign * q.m * 2^(q.e + x) for a rounded mantissa and exponent q
FiniteOf(sign, q, x) == Finite(sign, q.m, q.e + x)

\* the float a value n / d (* 2^x) is held as: the nearest double
Float64(v) ==
    IF v.d = 0 THEN (IF v.n = 0 THEN NaN ELSE Inf(Sign(v.n)))
    ELSE IF v.n = 0 THEN Zero
    ELSE FiniteOf(Sign(v.n), ToDouble(AbsInt(v.n), v.d), BinaryExponent(v))

\* a / b on numpy floats: x / 0 is inf or -inf, 0 / 0 is nan, nothing raises
FloatDiv(a, b) ==
    IF a.cls = "nan" \/ b.cls = "nan" THEN NaN
    ELSE IF a.cls = "inf"
    THEN IF b.cls = "inf" THEN NaN
         ELSE Inf(a.sign * (IF b.sign = 0 THEN 1 ELSE b.sign))
    ELSE IF b.cls = "inf" THEN Zero
    ELSE IF b.sign = 0 THEN (IF a.sign = 0 THEN NaN ELSE Inf(a.sign))
    ELSE IF a.sign = 0 THEN Zero
    ELSE FiniteOf(a.sign * b.sign, DivDouble(a, b), 0)

\* q + 0.5 on floats, rounded to the nearest double, ties to even.  With
\* |q| = m * 2^e: for e >= 1 the sum rounds back to q; for e in -53..0 the
\* sum is formed at the scale of q; below that at the scale of the result
FloatAddHalf(q) ==
    IF q.cls # "finite" THEN q
    ELSE IF q.sign = 0 THEN Finite(1, TwoTo52, 0 - MantissaBits)
    ELSE IF q.e >= 1 THEN q
    ELSE IF q.sign = 1
    THEN IF q.e = 0 THEN Finite(1, RoundShift(BigDouble(q.m, 1), 1), 0)
         ELSE IF q.e >= 0 - MantissaBits
         THEN LET sum == BigAdd(q.m, BigTwoTo(0 - 1 - q.e))
              IN  IF sum.hi < 2 * HiddenBitHi THEN Finite(1, sum, q.e)
                  ELSE Finite(1, RoundShift(sum, 1), q.e + 1)
         ELSE Finite(1, BigAdd(TwoTo52, RoundShift(q.m, 0 - (q.e + MantissaBits))),
                     0 - MantissaBits)
    ELSE IF q.e = 0
    THEN LET x == BigSub(BigDouble(q.m, 0), Big(1))
         IN  IF x.hi < 2 * HiddenBitHi THEN Finite(-1, x, -1)
             ELSE Finite(-1, RoundShift(x, 1), 0)
    ELSE IF q.e >= 0 - MantissaBits
    THEN IF q.m = BigTwoTo(0 - 1 - q.e) THEN Zero
         ELSE FiniteOf(-1, RoundToDouble(BigSub(q.m, BigTwoTo(0 - 1 - q.e)),
                                         Big(0), Big(1), q.e), 0)
    ELSE IF q.e = 0 - MantissaBits - 1
    THEN FiniteOf(1, RoundToDouble(BigSub(TwoTo53, q.m), Big(0), Big(1), q.e), 0)
    ELSE Finite(1, BigSub(TwoTo53, RoundShift(q.m, 0 - (q.e + MantissaBits + 1))),
                0 - MantissaBits - 1)

\* a < b on floats: false when either side is nan
FloatLess(a, b) ==
    IF a.cls = "nan" \/ b.cls = "nan" THEN FALSE
    ELSE IF a.cls = "inf" \/ b.cls = "inf"
    THEN (a.cls = "inf" /\ a.sign = -1 /\ b # a) \/ (b.cls = "inf" /\ b.sign = 1 /\ b # a)
    ELSE IF a.sign # b.sign THEN a.sign < b.sign
    ELSE IF a.sign = 1 THEN a.e < b.e \/ (a.e = b.e /\ BigLess(a.m, b.m))
    ELSE IF a.sign = -1 THEN b.e < a.e \/ (a.e = b.e /\ BigLess(b.m, a.m))
    ELSE FALSE

\* the product of two mantissas is formed on limbs of 14 bits, whose products
\* fit the integers of the checker
MulLimbBits == 14

MulLimbBase == TwoTo(MulLimbBits)

\* the four limbs of 14 bits of a mantissa, lowest first
Limbs(m) ==
    <<m.lo % MulLimbBase,
      (m.lo \div MulLimbBase) + (m.hi % 2) * TwoTo(LimbBits - MulLimbBits),
      (m.hi \div 2) % MulLimbBase,
      m.hi \div (2 * MulLimbBase)>>

\* the seven column sums of the product of two mantissas given by their
\* limbs: column k holds the products of limbs whose positions add up to k
MulColumns(X, Y) ==
    <<X[1] * Y[1],
      X[1] * Y[2] + X[2] * Y[1],
      X[1] * Y[3] + X[2] * Y[2] + X[3] * Y[1],
      X[1] * Y[4] + X[2] * Y[3] + X[3] * Y[2] + X[4] * Y[1],
      X[2] * Y[4] + X[3] * Y[3] + X[4] * Y[2],
      X[3] * Y[4] + X[4] * Y[3],
      X[4] * Y[4]>>

\* the limbs of a number given by column sums c, from column k on, with the
\* carry of the columns below
RECURSIVE CarryLimbs(_, _, _)
CarryLimbs(c, k, carry) ==
    IF k > Len(c) THEN <<carry>>
    ELSE <<(c[k] + carry) % MulLimbBase>>
         \o CarryLimbs(c, k + 1, (c[k] + carry) \div MulLimbBase)

\* the eight limbs of 14 bits of the product x * y of two mantissas
MulLimbs(x, y) == CarryLimbs(MulColumns(Limbs(x), Limbs(y)), 1, 0)

\* q + (half + less) / 2 rounded to the nearest integer, ties to the even
\* one: half is the first bit cut off, sticky tells whether bits below it
\* are set
RoundCut(q, half, sticky) ==
    IF half /\ (sticky \/ q.lo % 2 = 1) THEN BigInc(q) ELSE q

\* a product cut at bit 52, of 53 or 54 bits, rounded to 53 bits: m * 2^shift
RoundProduct(q52, half52, sticky52) ==
    IF q52.hi >= 2 * HiddenBitHi
    THEN [m |-> RoundCut(BigShiftRight(q52, 1), q52.lo % 2 = 1, half52 \/ sticky52),
          shift |-> MantissaBits]
    ELSE [m |-> RoundCut(q52, half52, sticky52), shift |-> MantissaBits - 1]

\* the product given by its limbs d, of 105 or 106 bits, cut at bit 52 (bit
\* 10 of limb 4) and rounded
CutProduct(d) ==
    RoundProduct([hi |-> (d[6] \div TwoTo(9)) + d[7] * TwoTo(5) + d[8] * TwoTo(19),
                  lo |-> (d[4] \div TwoTo(10)) + d[5] * TwoTo(4)
                         + (d[6] % TwoTo(9)) * TwoTo(18)],
                 (d[4] \div TwoTo(9)) % 2 = 1,
                 d[4] % TwoTo(9) # 0 \/ d[3] # 0 \/ d[2] # 0 \/ d[1] # 0)

\* x * y of two mantissas in [2^52, 2^53), rounded to 53 bits, ties to the
\* even mantissa: the product is m * 2^shift
MulMantissas(x, y) == CutProduct(MulLimbs(x, y))

\* the product of two finite doubles that are not zero
FiniteProduct(sign, p, e) == Finite(sign, p.m, e + p.shift)

\* a * b on floats, rounded to the nearest double: inf * 0 is nan
FloatMul(a, b) ==
    IF a.cls = "nan" \/ b.cls = "nan" THEN NaN
    ELSE IF a.cls = "inf" \/ b.cls = "inf"
    THEN IF a.sign = 0 \/ b.sign = 0 THEN NaN ELSE Inf(a.sign * b.sign)
    ELSE IF a.sign = 0 \/ b.sign = 0 THEN Zero
    ELSE FiniteProduct(a.sign * b.sign, MulMantissas(a.m, b.m), a.e + b.e)

\* the doubles one unit in the last place away from a finite double that is
\* not zero: the next one away from zero and the next one towards it
FloatNextUp(a) == Finite(a.sign, BigInc(a.m), a.e)

FloatNextDown(a) ==
    IF a.m = TwoTo52 THEN Finite(a.sign, BigSub(TwoTo53, Big(1)), a.e - 1)
    ELSE Finite(a.sign, BigSub(a.m, Big(1)), a.e)

\* a is the double x or one of its two neighbours
WithinOneUlp(a, x) ==
    \/ a = x
    \/ /\ x.cls = "finite"
       /\ x.sign # 0
       /\ a \in {FloatNextUp(x), FloatNextDown(x)}

\* a float32 has a mantissa of 24 bits and binary exponents up to 127
SingleMantissaBits == 24

MaxSingleExponent == 127

\* a double cast to float32 (dtype=np.float32): sign * m * 2^e with
\* 2^23 <= m < 2^24, the nearest float32, ties to the even mantissa, with
\* overflow to inf.  Values below 2^-126 (subnormals) are not modelled.
Float32(a) ==
    IF a.cls # "finite" \/ a.sign = 0 THEN [cls |-> a.cls, sign |-> a.sign, m |-> 0, e |-> 0]
    ELSE LET r == RoundShift(a.m, MantissaBits - SingleMantissaBits).lo
             carry == r = TwoTo(SingleMantissaBits)
             e == a.e + MantissaBits - SingleMantissaBits + (IF carry THEN 1 ELSE 0)
         IN  IF e + SingleMantissaBits - 1 > MaxSingleExponent
             THEN [cls |-> "inf", sign |-> a.sign, m |-> 0, e |-> 0]
             ELSE [cls |-> "finite", sign |-> a.sign,
                   m |-> IF carry THEN TwoTo(SingleMantissaBits - 1) ELSE r, e |-> e]

Voxels == 1..NVoxels

\* a numpy array of float64 over the voxel grid
Floats(x) == [v \in DOMAIN x |-> Float64(x[v])]

\* elementwise product of two float64 arrays over the same voxel grid
ArrMul(x, y) == [v \in DOMAIN x |-> FloatMul(x[v], y[v])]

\* product of a float64 array with a float
ArrScale(x, s) == [v \in DOMAIN x |-> FloatMul(x[v], s)]

(***************************************************************************)
(* Tags and paths.                                                         *)
(***************************************************************************)
IGNORE_QA_ASSERTIONS == "ignore_qa_assertions"
OPTICAL_MODEL == "optical_model"
OPTICAL_MODEL_MCXYZ == "mcxyz"
OPTICAL_MODEL_MCX == "mcx"
OPTICAL_MODEL_TEST == "test"
WAVELENGTH == "wavelength"
PERFORM_UPSAMPLING == "sample"
LASER_PULSE_ENERGY_IN_MILLIJOULE == "laser_pulse_energy_in_millijoule"
SIMULATION_PROPERTIES == "properties"
PROPERTY_ABSORPTION_PER_CM == "mua"
PROPERTY_GRUNEISEN_PARAMETER == "gamma"
OPTICAL_MODEL_FLUENCE == "fluence"
OPTICAL_MODEL_INITIAL_PRESSURE == "initial_pressure"
OPTICAL_MODEL_UNITS == "units"
UNITS_PRESSURE == "newton_per_meters_squared"
UNITS_ARBITRARY == "arbitrary_unity"
ORIGINAL_DATA == "original_data"
SIMPA_OUTPUT_PATH == "simpa_output_path"

None == "None"

EmptyDict == [x \in {} |-> None]

\* run_optical_forward_model: its argument, the hdf5 file, its position, its
\* locals, the calls it has made and how it ended
VARIABLES settings, file, pc, model, forward_model_implementation,
          optical_properties_path, fluence, absorption, gruneisen_parameter,
          initial_pressure, units, trace, outcome

\* the settings dictionaries of the device and adapter classes
VARIABLES global_settings, component_settings

\* PencilBeamIlluminationGeometry: the last two calls of
\* get_mcx_illuminator_definition, oldest first
VARIABLES pencil_calls

\* MCXAdapter: the caller's arrays, the illumination geometry, the adapter's
\* attributes, the last call of one of its methods and the engine's result
\* record a caller holds
VARIABLES volumes, illumination_geometry, adapter, adapter_call, engine_record

\* SensorDegradation and the quality assurance functions: the time series
\* field of the output file, the last call of run and the last call of an
\* assertion function
VARIABLES time_series_data_field, sensor_run, qa_call

\* the functions of calculate.py: the last call of one of them, with its
\* arguments, the draws it has made and how it ended
VARIABLES calculate_call

optVars == <<settings, file, pc, model, forward_model_implementation,
             optical_properties_path, fluence, absorption, gruneisen_parameter,
             initial_pressure, units, trace, outcome>>

settingsVars == <<global_settings, component_settings>>

pencilVars == <<pencil_calls>>

adapterVars == <<volumes, illumination_geometry, adapter, adapter_call,
                 engine_record>>

processingVars == <<time_series_data_field, sensor_run, qa_call>>

calculateVars == <<calculate_call>>

vars == <<optVars, settingsVars, pencilVars, adapterVars, processingVars,
          calculateVars>>

(***************************************************************************)
(* run_optical_forward_model(settings)                                     *)
(***************************************************************************)
UnknownModel == "unknown_model"

ModelChoices == {None, OPTICAL_MODEL_MCXYZ, OPTICAL_MODEL_MCX, OPTICAL_MODEL_TEST, UnknownModel}

UpsamplingChoices == {None, "True", "False"}

EnergyChoices == {None, "10"}

\* the pulse energy in millijoules a choice stands for
EnergyValue(e) == 10

Wavelengths == {800}

\* the path of the hdf5 file of the run, if the settings name one
OutputPathChoices == {None, "simpa_output.hdf5"}

\* a settings dictionary; a key whose choice is None is absent from it
SettingsOf(m, u, e, w, o) ==
    (IF m = None THEN EmptyDict ELSE (OPTICAL_MODEL :> m))
    @@ (IF u = None THEN EmptyDict ELSE (PERFORM_UPSAMPLING :> (u = "True")))
    @@ (IF e = None THEN EmptyDict ELSE (LASER_PULSE_ENERGY_IN_MILLIJOULE :> EnergyValue(e)))
    @@ (IF o = None THEN EmptyDict ELSE (SIMPA_OUTPUT_PATH :> o))
    @@ (WAVELENGTH :> w)

SettingsChoices ==
    {SettingsOf(m, u, e, w, o) : m \in ModelChoices, u \in UpsamplingChoices,
                                 e \in EnergyChoices, w \in Wavelengths,
                                 o \in OutputPathChoices}

AbsorptionValues == {Num(i) : i \in 1..MaxAbsorption}

GruneisenValues == {Norm(1, 200), Norm(1, 5)}

\* entries of the fluence an engine returns; the last one is nan
FluenceValues == {Num(3), Norm(0, 0)}

\* the stored optical properties; a required field may be missing
PropertyDicts ==
    {(PROPERTY_ABSORPTION_PER_CM :> a) @@ (PROPERTY_GRUNEISEN_PARAMETER :> g) :
        a \in [Voxels -> AbsorptionValues], g \in [Voxels -> GruneisenValues]}
    \cup {(PROPERTY_ABSORPTION_PER_CM :> a) : a \in [Voxels -> AbsorptionValues]}
    \cup {(PROPERTY_GRUNEISEN_PARAMETER :> g) : g \in [Voxels -> GruneisenValues]}

generate_dict_path(data_field, wavelength, upsampled_data) ==
    <<data_field, IF upsampled_data THEN "upsampled_data" ELSE ORIGINAL_DATA, wavelength>>

OPTICAL_OUTPUT(data, wavelength) == <<"optical_output", data, wavelength>>

Running == [kind |-> "running", value |-> None]

Raised(e) == [kind |-> "raised", value |-> e]

Returned(v) == [kind |-> "returned", value |-> v]

\* the components that a specification does not exercise
SettingsIdle == global_settings = EmptyDict /\ component_settings = EmptyDict

PencilIdle == pencil_calls = <<>>

AdapterIdle ==
    /\ volumes = EmptyDict
    /\ illumination_geometry = None
    /\ adapter = EmptyDict
    /\ adapter_call = EmptyDict
    /\ engine_record = EmptyDict

ProcessingIdle ==
    /\ time_series_data_field = None
    /\ sensor_run = EmptyDict
    /\ qa_call = EmptyDict

CalculateIdle == calculate_call = EmptyDict

OptIdle ==
    /\ settings = EmptyDict
    /\ file = EmptyDict
    /\ pc = "idle"
    /\ model = None
    /\ forward_model_implementation = None
    /\ optical_properties_path = None
    /\ fluence = None
    /\ absorption = None
    /\ gruneisen_parameter = None
    /\ initial_pressure = None
    /\ units = None
    /\ trace = <<>>
    /\ outcome = [kind |-> "idle", value |-> None]

OptInit ==
    /\ CalculateIdle
    /\ SettingsIdle
    /\ PencilIdle
    /\ AdapterIdle
    /\ ProcessingIdle
    /\ settings \in SettingsChoices
    /\ file \in {(generate_dict_path(SIMULATION_PROPERTIES, settings[WAVELENGTH], FALSE) :> p) :
                    p \in PropertyDicts}
    /\ pc = "L35"
    /\ model = None
    /\ forward_model_implementation = None
    /\ optical_properties_path = None
    /\ fluence = None
    /\ absorption = None
    /\ gruneisen_parameter = None
    /\ initial_pressure = None
    /\ units = None
    /\ trace = <<>>
    /\ outcome = Running

\* CheckOpticalModelTag skipping the stage with a normal return
CheckOpticalModelTagSkips ==
    /\ UNCHANGED <<settingsVars, pencilVars, adapterVars, processingVars,
                   calculateVars>>
    /\ pc = "L35"
    /\ IF OPTICAL_MODEL \notin DOMAIN settings
       THEN /\ pc' = "done"
            /\ outcome' = Returned(None)
       ELSE /\ pc' = "L38"
            /\ outcome' = outcome
    /\ UNCHANGED <<settings, file, model, forward_model_implementation,
                   optical_properties_path, fluence, absorption,
                   gruneisen_parameter, initial_pressure, units, trace>>

\* lines 35-36: the model selector must be in the settings
CheckOpticalModelTag ==
    /\ UNCHANGED <<settingsVars, pencilVars, adapterVars, processingVars,
                   calculateVars>>
    /\ pc = "L35"
    /\ IF OPTICAL_MODEL \notin DOMAIN settings
       THEN /\ pc' = "raised"
            /\ outcome' = Raised("AssertionError")
       ELSE /\ pc' = "L38"
            /\ outcome' = outcome
    /\ UNCHANGED <<settings, file, model, forward_model_implementation,
                   optical_properties_path, fluence, absorption,
                   gruneisen_parameter, initial_pressure, units, trace>>

\* lines 39-46: the adapter for the model tag; None when no branch matches
AdapterFor(m) ==
    IF m = OPTICAL_MODEL_MCXYZ THEN "McxyzAdapter"
    ELSE IF m = OPTICAL_MODEL_MCX THEN "McxAdapter"
    ELSE IF m = OPTICAL_MODEL_TEST THEN "TestOpticalAdapter"
    ELSE None

\* lines 38-46
SelectForwardModel ==
    /\ UNCHANGED <<settingsVars, pencilVars, adapterVars, processingVars,
                   calculateVars>>
    /\ pc = "L38"
    /\ model' = settings[OPTICAL_MODEL]
    /\ forward_model_implementation' = AdapterFor(settings[OPTICAL_MODEL])
    /\ pc' = "L48"
    /\ UNCHANGED <<settings, file, optical_properties_path, fluence, absorption,
                   gruneisen_parameter, initial_pressure, units, trace, outcome>>

\* lines 48-50
GenerateDictPath ==
    /\ UNCHANGED <<settingsVars, pencilVars, adapterVars, processingVars,
                   calculateVars>>
    /\ pc = "L48"
    /\ optical_properties_path' =
          generate_dict_path(SIMULATION_PROPERTIES, settings[WAVELENGTH], FALSE)
    /\ trace' = Append(trace, "generate_dict_path")
    /\ pc' = "L52"
    /\ UNCHANGED <<settings, file, model, forward_model_implementation, fluence,
                   absorption, gruneisen_parameter, initial_pressure, units, outcome>>

\* line 52: the adapter's simulate; on None the attribute lookup fails. The
\* engine behind an adapter returns some fluence field or fails.
Simulate ==
    /\ UNCHANGED <<settingsVars, pencilVars, adapterVars, processingVars,
                   calculateVars>>
    /\ pc = "L52"
    /\ IF forward_model_implementation = None
       THEN /\ pc' = "raised"
            /\ outcome' = Raised("AttributeError")
            /\ UNCHANGED <<fluence, trace>>
       ELSE /\ trace' = Append(trace, "simulate")
            /\ \/ /\ fluence' \in [Voxels -> FluenceValues]
                  /\ pc' = "L54"
                  /\ outcome' = outcome
               \/ /\ fluence' = fluence
                  /\ pc' = "raised"
                  /\ outcome' = Raised("EngineError")
    /\ UNCHANGED <<settings, file, model, forward_model_implementation,
                   optical_properties_path, absorption, gruneisen_parameter,
                   initial_pressure, units>>

\* LoadOpticalProperties taking 1 for every entry of a field that is missing
LoadOpticalPropertiesWithDefaults ==
    /\ UNCHANGED <<settingsVars, pencilVars, adapterVars, processingVars,
                   calculateVars>>
    /\ pc = "L54"
    /\ LET optical_properties == file[optical_properties_path]
           Get(field) == IF field \in DOMAIN optical_properties
                         THEN optical_properties[field]
                         ELSE [v \in Voxels |-> Num(1)]
       IN  IF SIMPA_OUTPUT_PATH \notin DOMAIN settings
           THEN /\ pc' = "raised"
                /\ outcome' = Raised("KeyError")
                /\ UNCHANGED <<absorption, gruneisen_parameter, trace>>
           ELSE /\ pc' = "L57"
                /\ outcome' = outcome
                /\ trace' = Append(trace, "load_hdf5")
                /\ absorption' = Get(PROPERTY_ABSORPTION_PER_CM)
                /\ gruneisen_parameter' = Get(PROPERTY_GRUNEISEN_PARAMETER)
    /\ UNCHANGED <<settings, file, model, forward_model_implementation,
                   optical_properties_path, fluence, initial_pressure, units>>

\* lines 54-56: look up the path of the file in the settings, load the
\* property dictionary from it and look up the two fields
LoadOpticalProperties ==
    /\ UNCHANGED <<settingsVars, pencilVars, adapterVars, processingVars,
                   calculateVars>>
    /\ pc = "L54"
    /\ trace' = IF SIMPA_OUTPUT_PATH \in DOMAIN settings
                THEN Append(trace, "load_hdf5") ELSE trace
    /\ LET optical_properties == file[optical_properties_path]
       IN  IF SIMPA_OUTPUT_PATH \notin DOMAIN settings
           THEN /\ pc' = "raised"
                /\ outcome' = Raised("KeyError")
                /\ UNCHANGED <<absorption, gruneisen_parameter>>
           ELSE IF PROPERTY_ABSORPTION_PER_CM \notin DOMAIN optical_properties
           THEN /\ pc' = "raised"
                /\ outcome' = Raised("KeyError")
                /\ UNCHANGED <<absorption, gruneisen_parameter>>
           ELSE IF PROPERTY_GRUNEISEN_PARAMETER \notin DOMAIN optical_properties
           THEN /\ pc' = "raised"
                /\ outcome' = Raised("KeyError")
                /\ absorption' = optical_properties[PROPERTY_ABSORPTION_PER_CM]
                /\ UNCHANGED gruneisen_parameter
           ELSE /\ pc' = "L57"
                /\ outcome' = outcome
                /\ absorption' = optical_properties[PROPERTY_ABSORPTION_PER_CM]
                /\ gruneisen_parameter' = optical_properties[PROPERTY_GRUNEISEN_PARAMETER]
    /\ UNCHANGED <<settings, file, model, forward_model_implementation,
                   optical_properties_path, fluence, initial_pressure, units>>

ConversionFactor == 1000000

MillijoulePerJoule == 1000

\* line 59: no upsampling will occur downstream
NoUpsampling(s) ==
    PERFORM_UPSAMPLING \notin DOMAIN s \/ s[PERFORM_UPSAMPLING] = FALSE

\* UnitsFor with the energy calibration taking precedence over upsampling
UnitsForEnergyFirst(s) ==
    IF LASER_PULSE_ENERGY_IN_MILLIJOULE \in DOMAIN s
    THEN UNITS_PRESSURE
    ELSE UNITS_ARBITRARY

\* lines 59-71: the unit tag
UnitsFor(s) ==
    IF NoUpsampling(s)
    THEN IF LASER_PULSE_ENERGY_IN_MILLIJOULE \in DOMAIN s
         THEN UNITS_PRESSURE
         ELSE UNITS_ARBITRARY
    ELSE UNITS_ARBITRARY

\* PressureInPascal with the pulse energy taken as joules
PressureInPascalNoMilli(s, a, f, g) ==
    ArrScale(ArrScale(ArrMul(ArrMul(Floats(a), Floats(f)), Floats(g)),
                      Float64(Num(s[LASER_PULSE_ENERGY_IN_MILLIJOULE]))),
             Float64(Num(ConversionFactor)))

\* lines 64-66: the pressure in Pascal, a product of float64 values taken
\* from left to right and rounded after every operation
PressureInPascal(s, a, f, g) ==
    ArrScale(ArrScale(ArrMul(ArrMul(Floats(a), Floats(f)), Floats(g)),
                      FloatDiv(Float64(Num(s[LASER_PULSE_ENERGY_IN_MILLIJOULE])),
                               Float64(Num(MillijoulePerJoule)))),
             Float64(Num(ConversionFactor)))

\* PressureArbitrary scaled by the Grueneisen parameter
PressureArbitraryWithGruneisen(s, a, f, g) == ArrMul(ArrMul(Floats(a), Floats(f)), Floats(g))

\* lines 57, 69: the pressure in arbitrary units, a product of float64 values
PressureArbitrary(s, a, f, g) == ArrMul(Floats(a), Floats(f))

\* lines 57-71: the initial pressure
InitialPressureFor(s, a, f, g) ==
    IF NoUpsampling(s)
    THEN IF LASER_PULSE_ENERGY_IN_MILLIJOULE \in DOMAIN s
         THEN PressureInPascal(s, a, f, g)
         ELSE PressureArbitrary(s, a, f, g)
    ELSE PressureArbitrary(s, a, f, g)

\* lines 57-71
ComputeInitialPressure ==
    /\ UNCHANGED <<settingsVars, pencilVars, adapterVars, processingVars,
                   calculateVars>>
    /\ pc = "L57"
    /\ initial_pressure' = InitialPressureFor(settings, absorption, fluence, gruneisen_parameter)
    /\ units' = UnitsFor(settings)
    /\ pc' = "L73"
    /\ UNCHANGED <<settings, file, model, forward_model_implementation,
                   optical_properties_path, fluence, absorption,
                   gruneisen_parameter, trace, outcome>>

\* lines 76-78: the dictionary that is saved
OpticalOutput(f, p, u) ==
    (OPTICAL_MODEL_FLUENCE :> f) @@ (OPTICAL_MODEL_INITIAL_PRESSURE :> p)
    @@ (OPTICAL_MODEL_UNITS :> u)

\* lines 73-80; the file is the one at settings[Tags.SIMPA_OUTPUT_PATH],
\* which line 54 has read before
SaveOpticalOutput ==
    /\ UNCHANGED <<settingsVars, pencilVars, adapterVars, processingVars,
                   calculateVars>>
    /\ pc = "L73"
    /\ LET optical_output_path == OPTICAL_OUTPUT(ORIGINAL_DATA, settings[WAVELENGTH])
       IN  file' = (optical_output_path :> OpticalOutput(fluence, initial_pressure, units))
                   @@ file
    /\ trace' = Append(trace, "save_hdf5")
    /\ pc' = "L82"
    /\ UNCHANGED <<settings, model, forward_model_implementation,
                   optical_properties_path, fluence, absorption,
                   gruneisen_parameter, initial_pressure, units, outcome>>

\* ReturnOutputPath returning the path of the optical properties
ReturnPropertiesPath ==
    /\ UNCHANGED <<settingsVars, pencilVars, adapterVars, processingVars,
                   calculateVars>>
    /\ pc = "L82"
    /\ outcome' = Returned(optical_properties_path)
    /\ pc' = "done"
    /\ UNCHANGED <<settings, file, model, forward_model_implementation,
                   optical_properties_path, fluence, absorption,
                   gruneisen_parameter, initial_pressure, units, trace>>

\* line 82
ReturnOutputPath ==
    /\ UNCHANGED <<settingsVars, pencilVars, adapterVars, processingVars,
                   calculateVars>>
    /\ pc = "L82"
    /\ outcome' = Returned(OPTICAL_OUTPUT(ORIGINAL_DATA, settings[WAVELENGTH]))
    /\ pc' = "done"
    /\ UNCHANGED <<settings, file, model, forward_model_implementation,
                   optical_properties_path, fluence, absorption,
                   gruneisen_parameter, initial_pressure, units, trace>>

OptNext ==
    \/ CheckOpticalModelTag
    \/ SelectForwardModel
    \/ GenerateDictPath
    \/ Simulate
    \/ LoadOpticalProperties
    \/ ComputeInitialPressure
    \/ SaveOpticalOutput
    \/ ReturnOutputPath

SpecOptical == OptInit /\ [][OptNext]_vars

(***************************************************************************)
(* Properties of run_optical_forward_model.                                *)
(***************************************************************************)
OutputPath == OPTICAL_OUTPUT(ORIGINAL_DATA, settings[WAVELENGTH])

StoredProperties == file[generate_dict_path(SIMULATION_PROPERTIES, settings[WAVELENGTH], FALSE)]

UpsamplingFlagTrue ==
    PERFORM_UPSAMPLING \in DOMAIN settings /\ settings[PERFORM_UPSAMPLING] = TRUE

EnergyPresent == LASER_PULSE_ENERGY_IN_MILLIJOULE \in DOMAIN settings

Saves == {i \in DOMAIN trace : trace[i] = "save_hdf5"}

\* C1: a completed run has written exactly one unit tag, and the tag is
\* ARBITRARY when the upsampling flag is true (whatever the energy),
\* PHYSICAL_PRESSURE when the flag is false or absent and an energy is
\* present, and ARBITRARY when the flag is false or absent and no energy is
\* present.
C1_UnitModeSelection ==
    pc = "done" =>
        /\ Cardinality(Saves) = 1
        /\ file[OutputPath][OPTICAL_MODEL_UNITS] =
              (IF UpsamplingFlagTrue THEN UNITS_ARBITRARY
               ELSE IF EnergyPresent THEN UNITS_PRESSURE
               ELSE UNITS_ARBITRARY)

C1_Witness ==
    /\ pc = "done"
    /\ UpsamplingFlagTrue
    /\ EnergyPresent
    /\ file[OutputPath][OPTICAL_MODEL_UNITS] = UNITS_ARBITRARY

\* absorption * fluence * gruneisen * (E / 1000) * 1e6 of a voxel as an
\* exact fraction
ExactPressure(a, f, g, E) == Norm(a.n * f.n * g.n * E * 1000, a.d * f.d * g.d)

\* the same product taken in float64 from left to right
FloatPressure(a, f, g, E) ==
    FloatMul(FloatMul(FloatMul(FloatMul(Float64(a), Float64(f)), Float64(g)),
                      FloatDiv(Float64(Num(E)), Float64(Num(1000)))),
             Float64(Num(1000000)))

C3_ArbitraryPressure ==
    (pc = "done" /\ file[OutputPath][OPTICAL_MODEL_UNITS] = UNITS_ARBITRARY) =>
        LET out == file[OutputPath]
            a == StoredProperties[PROPERTY_ABSORPTION_PER_CM]
            f == out[OPTICAL_MODEL_FLUENCE]
        IN  \A v \in Voxels :
               out[OPTICAL_MODEL_INITIAL_PRESSURE][v] =
                  Float64(Norm(a[v].n * f[v].n, a[v].d * f[v].d))

\* upsampling with an energy present: absorption 2, fluence 3 gives 6
C3_Witness ==
    /\ pc = "done"
    /\ UpsamplingFlagTrue
    /\ EnergyPresent
    /\ StoredProperties[PROPERTY_ABSORPTION_PER_CM][1] = Num(2)
    /\ file[OutputPath][OPTICAL_MODEL_FLUENCE][1] = Num(3)
    /\ file[OutputPath][OPTICAL_MODEL_INITIAL_PRESSURE][1] = Float64(Num(6))
    /\ file[OutputPath][OPTICAL_MODEL_UNITS] = UNITS_ARBITRARY

UnknownModelTag ==
    /\ OPTICAL_MODEL \in DOMAIN settings
    /\ settings[OPTICAL_MODEL] \notin
          {OPTICAL_MODEL_MCXYZ, OPTICAL_MODEL_MCX, OPTICAL_MODEL_TEST}

\* C4: a model tag outside the enumeration is rejected as a configuration
\* error before any computation: nothing (no path generation, no engine
\* call, no read, no write) has happened at any point of such a run, and the
\* run ends with a configuration error.
C4_UnknownModelRejectedFirst ==
    UnknownModelTag =>
        /\ trace = <<>>
        /\ pc \notin {"L35", "L38", "L48"} =>
              (pc = "raised" /\ outcome = Raised("ConfigurationError"))

\* C5: without a model selector the run raises at once: it ends raised with
\* the assertion error, not returned, and no path generation, engine call,
\* read or write has happened.
C5_MissingSelectorRaises ==
    (OPTICAL_MODEL \notin DOMAIN settings /\ pc # "L35") =>
        /\ pc = "raised"
        /\ outcome = Raised("AssertionError")
        /\ trace = <<>>
        /\ OutputPath \notin DOMAIN file

C5_Witness ==
    /\ OPTICAL_MODEL \notin DOMAIN settings
    /\ pc = "raised"
    /\ outcome = Raised("AssertionError")

(***************************************************************************)
(* PencilBeamIlluminationGeometry.get_mcx_illuminator_definition           *)
(***************************************************************************)
MaxSpacingHalves == 2
MaxPosition == 1

SPACING_MM == "voxel_spacing_mm"
ILLUMINATION_TYPE_PENCILARRAY == "pencilarray"

\* voxel spacings in millimeters, multiples of 0.5: negative, zero, positive
SpacingValues == {Norm(k, 2) : k \in (-MaxSpacingHalves)..MaxSpacingHalves}

\* 2^-TinyExponent millimeters: a position next to 0 that is a double
TinyExponent == 60

Tiny == [n |-> 1, d |-> 1, x |-> 0 - TinyExponent]

\* probe positions in millimeters: along the surface or next to its origin,
\* one millimeter either side of it across, at the surface
ProbePositions ==
    {<<x, Num(y), Num(0)>> : x \in {Num(k) : k \in (-MaxPosition)..MaxPosition} \cup {Tiny},
                             y \in {-1, 1}}

Half == Norm(1, 2)

\* line 20 with the half voxel added before the division by the spacing
DevicePositionOffsetFirst(probe_position_mm, spacing) ==
    [i \in DOMAIN probe_position_mm |->
        FloatDiv(FloatAddHalf(Float64(probe_position_mm[i])), Float64(spacing))]

\* line 20: numpy divides elementwise in doubles, a division by zero gives
\* inf or nan; then 0.5 is added in doubles
DevicePosition(probe_position_mm, spacing) ==
    [i \in DOMAIN probe_position_mm |->
        FloatAddHalf(FloatDiv(Float64(probe_position_mm[i]), Float64(spacing)))]

\* lines 15-34; the code has no branch that raises
get_mcx_illuminator_definition(gs, probe_position_mm) ==
    Returned([Type |-> ILLUMINATION_TYPE_PENCILARRAY,
              Pos |-> DevicePosition(probe_position_mm, gs[SPACING_MM]),
              Dir |-> <<0, 0, 1>>,
              Param1 |-> <<0, 0, 0, 0>>,
              Param2 |-> <<0, 0, 0, 0>>])

PencilInit ==
    /\ CalculateIdle
    /\ OptIdle
    /\ AdapterIdle
    /\ ProcessingIdle
    /\ global_settings \in {(SPACING_MM :> sp) : sp \in SpacingValues}
    /\ component_settings = EmptyDict
    /\ pencil_calls = <<>>

\* one call of the method, with any probe position
GetMcxIlluminatorDefinition ==
    \E p \in ProbePositions :
        LET call == [probe_position_mm |-> p,
                     outcome |-> get_mcx_illuminator_definition(global_settings, p)]
        IN  /\ pencil_calls' = IF Len(pencil_calls) < 2
                               THEN Append(pencil_calls, call)
                               ELSE <<pencil_calls[2], call>>
            /\ UNCHANGED <<optVars, settingsVars, adapterVars, processingVars,
                               calculateVars>>

PencilNext == GetMcxIlluminatorDefinition

SpecPencil == PencilInit /\ [][PencilNext]_vars

(***************************************************************************)
(* Properties of the pencil beam geometry.                                 *)
(***************************************************************************)
Spacing == global_settings[SPACING_MM]

SpacingPositive == Spacing.d # 0 /\ Spacing.n > 0

\* C7: with a voxel spacing <= 0 every call fails fast with an error; no
\* descriptor is returned.
C7_NonPositiveSpacingFailsFast ==
    \A k \in DOMAIN pencil_calls :
        ~SpacingPositive => pencil_calls[k].outcome.kind = "raised"

\* p/s + 0.5 for a position and a spacing written as fractions
ExactPosition(p, s) == Norm(2 * p.n * s.d + p.d * s.n, 2 * p.d * s.n)

\* p/s + 0.5 is a double, and so is p/s: a fraction with a power of two as
\* denominator
ExactlyRepresentable(p, s) ==
    /\ BinaryExponent(p) = 0
    /\ \E k \in 0..LimbBits : ExactPosition(p, s).d = TwoTo(k)

\* every call returned, and a position p for which p/s + 0.5 is a double has
\* that value
PositionFormula ==
    \A k \in DOMAIN pencil_calls : \A i \in 1..3 :
        LET p == pencil_calls[k].probe_position_mm[i]
        IN  /\ pencil_calls[k].outcome.kind = "returned"
            /\ ExactlyRepresentable(p, Spacing) =>
                  pencil_calls[k].outcome.value.Pos[i] = Float64(ExactPosition(p, Spacing))

\* C8 as the specification states it: for a positive spacing s the returned
\* position is p/s + 0.5 in each coordinate, and of two calls the one with
\* the smaller p in a coordinate returns the strictly smaller position in
\* that coordinate.
C8_PositionStrictlyMonotonic ==
    SpacingPositive =>
        /\ PositionFormula
        /\ \A j, k \in DOMAIN pencil_calls : \A i \in 1..3 :
              FloatLess(Float64(pencil_calls[j].probe_position_mm[i]),
                        Float64(pencil_calls[k].probe_position_mm[i]))
                 => FloatLess(pencil_calls[j].outcome.value.Pos[i],
                              pencil_calls[k].outcome.value.Pos[i])

\* C8: for a positive spacing s the returned position is p/s + 0.5 in each
\* coordinate wherever that value is a double, and of two calls the one with
\* the smaller p in a coordinate never returns the larger position in that
\* coordinate: the position is monotonic in p, not strictly.
C8_PositionFormulaMonotonic ==
    SpacingPositive =>
        /\ PositionFormula
        /\ \A j, k \in DOMAIN pencil_calls : \A i \in 1..3 :
              FloatLess(Float64(pencil_calls[j].probe_position_mm[i]),
                        Float64(pencil_calls[k].probe_position_mm[i]))
                 => ~FloatLess(pencil_calls[k].outcome.value.Pos[i],
                               pencil_calls[j].outcome.value.Pos[i])

\* two calls at spacing 0.5: p = 0 and p = 2^-60 both give 0.5 in the first
\* coordinate, p = -1 gives -1.5 and p = 1 gives 2.5 in the second
C8_Witness ==
    /\ Spacing = Norm(1, 2)
    /\ Len(pencil_calls) = 2
    /\ pencil_calls[1].probe_position_mm = <<Num(0), Num(-1), Num(0)>>
    /\ pencil_calls[2].probe_position_mm = <<Tiny, Num(1), Num(0)>>
    /\ pencil_calls[1].outcome.value.Pos[1] = Float64(Norm(1, 2))
    /\ pencil_calls[2].outcome.value.Pos[1] = Float64(Norm(1, 2))
    /\ pencil_calls[1].outcome.value.Pos[2] = Float64(Norm(-3, 2))
    /\ pencil_calls[2].outcome.value.Pos[2] = Float64(Norm(5, 2))

(***************************************************************************)
(* MCXAdapter                                                              *)
(***************************************************************************)
MaxDim == 2
MaxCells == 2

TIME_STEP == "time_step"
TOTAL_TIME == "total_time"
OPTICAL_MODEL_NUMBER_PHOTONS == "optical_model_number_of_photons"
MCX_SEED == "mcx_seed"
RANDOM_SEED == "random_seed"
DATA_FIELD_FLUENCE == "fluence"

PencilBeamIlluminationGeometry == "PencilBeamIlluminationGeometry"
IlluminationGeometryBase == "IlluminationGeometryBase"

\* an array is its shape and its entries in row-major order
Size(shape) == shape[1] * shape[2] * shape[3]

Shapes ==
    {sh \in (1..MaxDim) \X (1..MaxDim) \X (1..MaxDim) : Size(sh) <= MaxCells}

Ramp(shape, v) == [shape |-> shape, data |-> [i \in 1..Size(shape) |-> RMul(v, Num(i))]]

Fill(shape, v) == [shape |-> shape, data |-> [i \in 1..Size(shape) |-> v]]

AbsorptionCmArrays == {Ramp(sh, v) : sh \in Shapes, v \in {Num(1), Num(25)}}

ScatteringCmArrays == {Ramp(sh, Num(100)) : sh \in Shapes}

AnisotropyArrays == {Fill(sh, Norm(9, 10)) : sh \in Shapes}

RefractiveIndexArrays == {Fill(sh, Norm(7, 5)) : sh \in Shapes}

\* the arrays a caller passes, by keyword
VolumeChoices ==
    [absorption_cm : AbsorptionCmArrays, scattering_cm : ScatteringCmArrays,
     anisotropy : AnisotropyArrays, refractive_index : RefractiveIndexArrays]

ArrDivScalar(a, c) == [shape |-> a.shape, data |-> [i \in DOMAIN a.data |-> RDiv(a.data[i], c)]]

ArrMulScalar(a, c) == [shape |-> a.shape, data |-> [i \in DOMAIN a.data |-> RMul(a.data[i], c)]]

MmPerCm == 10

\* volumes_to_mm dividing the caller's arrays in place (absorption_cm /= 10)
volumes_to_mm_in_place(kwargs) ==
    LET absorption_mm == ArrDivScalar(kwargs.absorption_cm, Num(MmPerCm))
        scattering_mm == ArrDivScalar(kwargs.scattering_cm, Num(MmPerCm))
    IN  [result |-> <<absorption_mm, scattering_mm, kwargs.anisotropy, kwargs.refractive_index>>,
         kwargs |-> [kwargs EXCEPT !.absorption_cm = absorption_mm,
                                   !.scattering_cm = scattering_mm]]

\* lines 147-161: the returned tuple, and the caller's arrays after the call
\* (the divisions build new arrays)
volumes_to_mm(kwargs) ==
    LET absorption_mm == ArrDivScalar(kwargs.absorption_cm, Num(MmPerCm))
        scattering_mm == ArrDivScalar(kwargs.scattering_cm, Num(MmPerCm))
    IN  [result |-> <<absorption_mm, scattering_mm, kwargs.anisotropy, kwargs.refractive_index>>,
         kwargs |-> kwargs]

\* lines 136-144
pre_process_volumes(kwargs) == volumes_to_mm(kwargs)

\* lines 164-173
post_process_volumes(arrays) == arrays

\* line 99, dtype=np.float32: the float64 entries cast to float32
AsFloat32(data) == [i \in DOMAIN data |-> Float32(Float64(data[i]))]

\* np.stack without its check of the shapes
StackUnchecked(arrays) ==
    Returned([shape |-> <<Len(arrays)>> \o arrays[1].shape,
              data |-> AsFloat32(arrays[1].data \o arrays[2].data \o arrays[3].data
                                 \o arrays[4].data)])

\* line 99, np.stack of the four arrays as float32: a new leading axis; all
\* arrays must have one shape
Stack(arrays) ==
    IF \E j, k \in DOMAIN arrays : arrays[j].shape # arrays[k].shape
    THEN Raised("ValueError: all input arrays must have the same shape")
    ELSE Returned([shape |-> <<Len(arrays)>> \o arrays[1].shape,
                   data |-> AsFloat32(arrays[1].data \o arrays[2].data \o arrays[3].data
                                      \o arrays[4].data)])

\* the descriptor of a geometry whose method takes the settings alone
BaseIlluminatorDefinition(gs) ==
    [Type |-> "base", Pos |-> <<Half, Half, Half>>, Dir |-> <<0, 0, 1>>,
     Param1 |-> <<0, 0, 0, 0>>, Param2 |-> <<0, 0, 0, 0>>]

\* line 101: the method is called with the global settings as its only
\* argument; the pencil beam's method requires a probe position as well
IlluminatorDefinitionCall(geometry, gs) ==
    IF geometry = PencilBeamIlluminationGeometry
    THEN Raised("TypeError: missing 1 required positional argument: 'probe_position_mm'")
    ELSE Returned(BaseIlluminatorDefinition(gs))

DefaultTimeNumerator == 5
NanosecondsPerSecond == 1000000000

\* lines 107-108
DefaultTime == Norm(DefaultTimeNumerator, NanosecondsPerSecond)

\* line 109: how int(time / dt) ends.  A float zero as divisor raises
\* ZeroDivisionError whatever the dividend; a nan quotient (nan operand,
\* inf / inf) and an infinite quotient cannot be converted; otherwise the
\* quotient of the two floats, rounded to a float, is truncated towards zero
Frames(time, dt) ==
    IF dt.d # 0 /\ dt.n = 0 THEN Raised("ZeroDivisionError")
    ELSE IF IsNan(time) \/ IsNan(dt) \/ (time.d = 0 /\ dt.d = 0)
    THEN Raised("ValueError: cannot convert float NaN to integer")
    ELSE IF time.d = 0
    THEN Raised("OverflowError: cannot convert float infinity to integer")
    ELSE IF dt.d = 0 \/ time.n = 0 THEN Returned(0)
    ELSE Returned(Sign(time.n) * Sign(dt.n)
                  * IntOfDouble(DivDouble(ToDouble(AbsInt(time.n), time.d),
                                          ToDouble(AbsInt(dt.n), dt.d))))

\* SeedEntry with the global seed taking precedence
SeedEntryGlobalFirst(cs, gs) ==
    IF RANDOM_SEED \notin DOMAIN gs
    THEN IF MCX_SEED \in DOMAIN cs THEN ("seed" :> cs[MCX_SEED]) ELSE EmptyDict
    ELSE ("seed" :> gs[RANDOM_SEED])

\* lines 128-132: the seed entry of the configuration
SeedEntry(cs, gs) ==
    IF MCX_SEED \notin DOMAIN cs
    THEN IF RANDOM_SEED \in DOMAIN gs THEN ("seed" :> gs[RANDOM_SEED]) ELSE EmptyDict
    ELSE ("seed" :> cs[MCX_SEED])

\* lines 110-126
ConfigDict(cs, gs, vol, time, dt, source) ==
    [nphoton |-> cs[OPTICAL_MODEL_NUMBER_PHOTONS], vol |-> vol, tstart |-> 0,
     tend |-> time, tstep |-> dt, prop |-> <<<<0, 0, 1, 1>>>>,
     unitinmm |-> gs[SPACING_MM], srctype |-> source.Type, srcpos |-> source.Pos,
     srcdir |-> source.Dir, srcparam1 |-> source.Param1, srcparam2 |-> source.Param2,
     isreflect |-> 1, autopilot |-> 1, outputtype |-> "fluence"]

\* get_mcx_config keeping the frame count of an earlier call: the end of the
\* timing window is that count of time steps
get_mcx_config_keeping_frames(ad, geometry, kwargs, cs, gs) ==
    LET pre == pre_process_volumes(kwargs)
        vol == Stack(pre.result)
        ad1 == [ad EXCEPT !.nx = vol.value.shape[2], !.ny = vol.value.shape[3],
                          !.nz = vol.value.shape[4]]
        source == IlluminatorDefinitionCall(geometry, gs)
        explicit == TOTAL_TIME \in DOMAIN cs
        dt == IF explicit THEN cs[TIME_STEP] ELSE DefaultTime
        time == IF ad.frames >= 0 THEN RMul(Num(ad.frames), dt)
                ELSE IF explicit THEN cs[TOTAL_TIME] ELSE DefaultTime
        frames == Frames(time, dt)
        ad2 == [ad1 EXCEPT !.frames = frames.value]
    IN  IF vol.kind = "raised"
        THEN [outcome |-> vol, adapter |-> ad, kwargs |-> pre.kwargs]
        ELSE IF source.kind = "raised"
        THEN [outcome |-> source, adapter |-> ad1, kwargs |-> pre.kwargs]
        ELSE IF explicit /\ TIME_STEP \notin DOMAIN cs
        THEN [outcome |-> Raised("KeyError"), adapter |-> ad1, kwargs |-> pre.kwargs]
        ELSE IF frames.kind = "raised"
        THEN [outcome |-> frames, adapter |-> ad1, kwargs |-> pre.kwargs]
        ELSE [outcome |-> Returned(ConfigDict(cs, gs, vol.value, time, dt, source.value)
                                   @@ SeedEntry(cs, gs)),
              adapter |-> ad2, kwargs |-> pre.kwargs]

\* lines 94-134: the outcome, the adapter's attributes and the caller's
\* arrays after the call
get_mcx_config(ad, geometry, kwargs, cs, gs) ==
    LET pre == pre_process_volumes(kwargs)
        vol == Stack(pre.result)
        ad1 == [ad EXCEPT !.nx = vol.value.shape[2], !.ny = vol.value.shape[3],
                          !.nz = vol.value.shape[4]]
        source == IlluminatorDefinitionCall(geometry, gs)
        \* line 103: "Tags.TIME_STEP and Tags.TOTAL_TIME in ..." tests TOTAL_TIME alone
        explicit == TOTAL_TIME \in DOMAIN cs
        dt == IF explicit THEN cs[TIME_STEP] ELSE DefaultTime
        time == IF explicit THEN cs[TOTAL_TIME] ELSE DefaultTime
        frames == Frames(time, dt)
        ad2 == [ad1 EXCEPT !.frames = frames.value]
    IN  IF vol.kind = "raised"
        THEN [outcome |-> vol, adapter |-> ad, kwargs |-> pre.kwargs]
        ELSE IF source.kind = "raised"
        THEN [outcome |-> source, adapter |-> ad1, kwargs |-> pre.kwargs]
        ELSE IF explicit /\ TIME_STEP \notin DOMAIN cs
        THEN [outcome |-> Raised("KeyError"), adapter |-> ad1, kwargs |-> pre.kwargs]
        ELSE IF frames.kind = "raised"
        THEN [outcome |-> frames, adapter |-> ad1, kwargs |-> pre.kwargs]
        ELSE [outcome |-> Returned(ConfigDict(cs, gs, vol.value, time, dt, source.value)
                                   @@ SeedEntry(cs, gs)),
              adapter |-> ad2, kwargs |-> pre.kwargs]

FluxScale == 100

\* parse_pmcx_results keeping the temporal axis whatever its length
parse_pmcx_results_keeping_axis(pmcx_results) ==
    LET scaled == ArrMulScalar(pmcx_results.flux, Num(FluxScale))
    IN  [result |-> (DATA_FIELD_FLUENCE :> post_process_volumes(<<scaled>>)[1]),
         pmcx_results |-> [pmcx_results EXCEPT !.flux = scaled]]

\* lines 65-73: the returned dictionary, and the engine's result record after
\* the call ("fluence *= 100" scales the record's array in place)
parse_pmcx_results(pmcx_results) ==
    LET scaled == ArrMulScalar(pmcx_results.flux, Num(FluxScale))
        squeezed == IF scaled.shape[4] = 1
                    THEN [shape |-> SubSeq(scaled.shape, 1, 3), data |-> scaled.data]
                    ELSE scaled
    IN  [result |-> (DATA_FIELD_FLUENCE :> post_process_volumes(<<squeezed>>)[1]),
         pmcx_results |-> [pmcx_results EXCEPT !.flux = scaled]]

\* what the external engine may do with a configuration: fail, or return a
\* flux over the volume's grid with one entry per time gate
EngineBehaviours ==
    {[fails |-> TRUE, v |-> Num(0)]}
    \cup {[fails |-> FALSE, v |-> x] : x \in {Norm(1, 100), Num(2)}}

\* line 61, pmcx.run
pmcx_run(config, frames, e) ==
    IF e.fails THEN Raised("EngineError")
    ELSE LET sh == <<config.vol.shape[2], config.vol.shape[3], config.vol.shape[4], frames>>
         IN  Returned([flux |-> [shape |-> sh,
                                 data |-> [i \in 1..(Size(sh) * frames) |-> RMul(e.v, Num(i))]]])

NumberOfPhotons == 1000

\* the value None of an integer attribute
Unset == -1

\* lines 27-34: the attributes of an adapter no method was called on
NewAdapter == [frames |-> Unset, nx |-> Unset, ny |-> Unset, nz |-> Unset]

\* the record of a call: the method, its array arguments, the settings and
\* the adapter's attributes when it began, how it ended and the engine calls
\* it made
NoCall ==
    [op |-> "none", args |-> EmptyDict, component_settings |-> EmptyDict,
     global_settings |-> EmptyDict, self |-> EmptyDict, outcome |-> Running,
     trace |-> <<>>]

AdapterInit ==
    /\ CalculateIdle
    /\ OptIdle
    /\ PencilIdle
    /\ ProcessingIdle
    /\ engine_record = EmptyDict
    /\ global_settings = (SPACING_MM :> Half)
    /\ component_settings = (OPTICAL_MODEL_NUMBER_PHOTONS :> NumberOfPhotons)
    /\ volumes \in VolumeChoices
    /\ illumination_geometry \in {PencilBeamIlluminationGeometry, IlluminationGeometryBase}
    /\ adapter = NewAdapter
    /\ adapter_call = NoCall

\* an engine call in the record of a method call, and whether it failed
EngineCall(e) == [call |-> "pmcx.run", failed |-> e.fails]

\* forward_model running the engine a second time when the first run failed
ForwardModelRetrying ==
    \E e \in EngineBehaviours, e2 \in EngineBehaviours :
    \E c \in {get_mcx_config(adapter, illumination_geometry, volumes,
                             component_settings, global_settings)} :
    \E r \in {IF c.outcome.kind = "raised" THEN c.outcome
              ELSE IF e.fails THEN pmcx_run(c.outcome.value, c.adapter.frames, e2)
              ELSE pmcx_run(c.outcome.value, c.adapter.frames, e)} :
        /\ adapter_call' =
              [op |-> "forward_model", args |-> volumes,
               component_settings |-> component_settings,
               global_settings |-> global_settings, self |-> adapter,
               outcome |-> IF r.kind = "raised" THEN r
                           ELSE Returned(parse_pmcx_results(r.value).result),
               trace |-> IF c.outcome.kind = "raised" THEN <<>>
                         ELSE IF e.fails THEN <<EngineCall(e), EngineCall(e2)>>
                         ELSE <<EngineCall(e)>>]
        /\ adapter' = c.adapter
        /\ volumes' = c.kwargs
        /\ UNCHANGED <<optVars, settingsVars, pencilVars, processingVars, calculateVars,
                       illumination_geometry, engine_record>>

\* lines 55-63, a call of forward_model with the caller's arrays: the
\* configuration is built (55-59), the engine is run on it once (61) and
\* its result is parsed (63); an exception ends the call where it is raised
ForwardModel ==
    \E e \in EngineBehaviours :
    \E c \in {get_mcx_config(adapter, illumination_geometry, volumes,
                             component_settings, global_settings)} :
    \E r \in {IF c.outcome.kind = "raised" THEN c.outcome
              ELSE pmcx_run(c.outcome.value, c.adapter.frames, e)} :
        /\ adapter_call' =
              [op |-> "forward_model", args |-> volumes,
               component_settings |-> component_settings,
               global_settings |-> global_settings, self |-> adapter,
               outcome |-> IF r.kind = "raised" THEN r
                           ELSE Returned(parse_pmcx_results(r.value).result),
               trace |-> IF c.outcome.kind = "raised" THEN <<>> ELSE <<EngineCall(e)>>]
        /\ adapter' = c.adapter
        /\ volumes' = c.kwargs
        /\ UNCHANGED <<optVars, settingsVars, pencilVars, processingVars, calculateVars,
                       illumination_geometry, engine_record>>

\* a call of get_mcx_config with the caller's arrays
GetMcxConfig ==
    \E r \in {get_mcx_config(adapter, illumination_geometry, volumes,
                             component_settings, global_settings)} :
        /\ adapter_call' = [op |-> "get_mcx_config", args |-> volumes,
                            component_settings |-> component_settings,
                            global_settings |-> global_settings, self |-> adapter,
                            outcome |-> r.outcome, trace |-> <<>>]
        /\ adapter' = r.adapter
        /\ volumes' = r.kwargs
        /\ UNCHANGED <<optVars, settingsVars, pencilVars, processingVars, calculateVars,
                       illumination_geometry, engine_record>>

\* a call of volumes_to_mm with the caller's arrays
VolumesToMm ==
    \E r \in {volumes_to_mm(volumes)} :
        /\ adapter_call' = [op |-> "volumes_to_mm", args |-> volumes,
                            component_settings |-> component_settings,
                            global_settings |-> global_settings, self |-> adapter,
                            outcome |-> Returned(r.result), trace |-> <<>>]
        /\ volumes' = r.kwargs
        /\ UNCHANGED <<optVars, settingsVars, pencilVars, processingVars, calculateVars,
                       illumination_geometry, adapter, engine_record>>

AdapterNext ==
    \/ ForwardModel
    \/ GetMcxConfig
    \/ VolumesToMm

SpecAdapter == AdapterInit /\ [][AdapterNext]_vars

(***************************************************************************)
(* Properties of the adapter.                                              *)
(***************************************************************************)
SameShapes(kwargs) ==
    /\ kwargs.absorption_cm.shape = kwargs.scattering_cm.shape
    /\ kwargs.absorption_cm.shape = kwargs.anisotropy.shape
    /\ kwargs.absorption_cm.shape = kwargs.refractive_index.shape

\* C6: a forward_model call whose four arrays do not all have one shape
\* raises the shape-mismatch error and makes no engine call.
C6_ShapeMismatchBeforeEngine ==
    (adapter_call.op = "forward_model" /\ ~SameShapes(adapter_call.args)) =>
        /\ adapter_call.outcome =
              Raised("ValueError: all input arrays must have the same shape")
        /\ adapter_call.trace = <<>>

\* absorption and scattering differ in the last axis only
C6_Witness ==
    /\ adapter_call.op = "forward_model"
    /\ adapter_call.args.absorption_cm.shape = <<1, 1, 1>>
    /\ adapter_call.args.scattering_cm.shape = <<1, 1, 2>>
    /\ adapter_call.outcome.kind = "raised"
    /\ adapter_call.trace = <<>>

\* C9: with a pencil beam geometry get_mcx_config completes, and the source
\* fields of the configuration are the Type, Pos, Dir, Param1 and Param2 the
\* geometry returns for the settings and a probe position.
C9_PencilBeamThroughAdapter ==
    (/\ adapter_call.op = "get_mcx_config"
     /\ illumination_geometry = PencilBeamIlluminationGeometry
     /\ SameShapes(adapter_call.args)) =>
        /\ adapter_call.outcome.kind = "returned"
        /\ \E p \in ProbePositions :
              LET source == get_mcx_illuminator_definition(global_settings, p).value
                  config == adapter_call.outcome.value
              IN  /\ config.srctype = source.Type
                  /\ config.srcpos = source.Pos
                  /\ config.srcdir = source.Dir
                  /\ config.srcparam1 = source.Param1
                  /\ config.srcparam2 = source.Param2

\* C10: volumes_to_mm returns (absorption/10, scattering/10, anisotropy,
\* refractive index) in this order, entry by entry, and the caller's arrays
\* are after the call what they were before it.
C10_VolumesToMm ==
    adapter_call.op = "volumes_to_mm" =>
        LET in == adapter_call.args
            out == adapter_call.outcome.value
            Tenth(a) == [shape |-> a.shape,
                         data |-> [i \in DOMAIN a.data |->
                                      Norm(a.data[i].n, a.data[i].d * 10)]]
        IN  /\ Len(out) = 4
            /\ out[1] = Tenth(in.absorption_cm)
            /\ out[2] = Tenth(in.scattering_cm)
            /\ out[3] = in.anisotropy
            /\ out[4] = in.refractive_index
            /\ volumes = in

\* absorption 25 and 50 per cm over two voxels become 2.5 and 5 per mm
C10_Witness ==
    /\ adapter_call.op = "volumes_to_mm"
    /\ adapter_call.args.absorption_cm.shape = <<1, 1, 2>>
    /\ adapter_call.args.absorption_cm.data = <<Num(25), Num(50)>>
    /\ adapter_call.outcome.value[1].data = <<Norm(5, 2), Num(5)>>
    /\ adapter_call.outcome.value[2].data[1] = Num(10)
    /\ volumes.absorption_cm.data = <<Num(25), Num(50)>>

\* C19: a forward_model call runs the engine at most once; when that run
\* fails the call ends with the engine's error, and a call that returns a
\* result has made one engine run, which did not fail.
C19_NoRetries ==
    adapter_call.op = "forward_model" =>
        /\ Len(adapter_call.trace) <= 1
        /\ \A i \in DOMAIN adapter_call.trace :
              adapter_call.trace[i].failed =>
                  adapter_call.outcome = Raised("EngineError")
        /\ adapter_call.outcome.kind = "returned" =>
              /\ Len(adapter_call.trace) = 1
              /\ ~adapter_call.trace[1].failed

\* the engine was run once and failed; the call ended with its error
C19_Witness ==
    /\ adapter_call.op = "forward_model"
    /\ adapter_call.trace = <<[call |-> "pmcx.run", failed |-> TRUE]>>
    /\ adapter_call.outcome = Raised("EngineError")

(***************************************************************************)
(* Failure and persistence properties of run_optical_forward_model.        *)
(***************************************************************************)
PropertiesPath == generate_dict_path(SIMULATION_PROPERTIES, settings[WAVELENGTH], FALSE)

RequiredFieldMissing ==
    \/ PROPERTY_ABSORPTION_PER_CM \notin DOMAIN StoredProperties
    \/ PROPERTY_GRUNEISEN_PARAMETER \notin DOMAIN StoredProperties

Loads == {i \in DOMAIN trace : trace[i] = "load_hdf5"}

\* C14: when the absorption or the Grueneisen field is missing from the
\* stored properties, a run never completes; once it has loaded the
\* properties it has ended with the lookup error, and in every case the
\* file holds the stored properties alone: nothing was written.
C14_MissingFieldNothingWritten ==
    (RequiredFieldMissing /\ pc \in {"done", "raised"}) =>
        /\ pc = "raised"
        /\ Loads # {} => outcome = Raised("KeyError")
        /\ Saves = {}
        /\ DOMAIN file = {PropertiesPath}

\* the Grueneisen field is missing: the run has simulated, loaded the
\* properties and ended with the lookup error
C14_Witness ==
    /\ pc = "raised"
    /\ PROPERTY_ABSORPTION_PER_CM \in DOMAIN StoredProperties
    /\ PROPERTY_GRUNEISEN_PARAMETER \notin DOMAIN StoredProperties
    /\ trace = <<"generate_dict_path", "simulate", "load_hdf5">>
    /\ outcome = Raised("KeyError")
    /\ OutputPath \notin DOMAIN file

\* the diagnostic bypass flag is set in the settings of the run
BypassFlagSet ==
    IGNORE_QA_ASSERTIONS \in DOMAIN settings /\ settings[IGNORE_QA_ASSERTIONS] = TRUE

\* C16: unless the bypass flag is set, every entry of a fluence and of an
\* initial pressure stored at the output path is finite.
C16_NoNonFinitePersisted ==
    (OutputPath \in DOMAIN file /\ ~BypassFlagSet) =>
        \A v \in Voxels :
            /\ IsFinite(file[OutputPath][OPTICAL_MODEL_FLUENCE][v])
            /\ file[OutputPath][OPTICAL_MODEL_INITIAL_PRESSURE][v].cls = "finite"

\* C15: a completed run has written once; the dictionary at the output path
\* of the original data and the run's wavelength holds the fluence, the
\* initial pressure and the unit tag and nothing else; the run returned
\* that path, and the fluence stored under it is the simulated fluence.
C15_SingleWriteAtReturnedPath ==
    pc = "done" =>
        /\ Cardinality(Saves) = 1
        /\ DOMAIN file = {PropertiesPath, <<"optical_output", ORIGINAL_DATA, settings[WAVELENGTH]>>}
        /\ outcome.kind = "returned"
        /\ outcome.value = <<"optical_output", ORIGINAL_DATA, settings[WAVELENGTH]>>
        /\ DOMAIN file[outcome.value] =
              {OPTICAL_MODEL_FLUENCE, OPTICAL_MODEL_INITIAL_PRESSURE, OPTICAL_MODEL_UNITS}
        /\ file[outcome.value][OPTICAL_MODEL_FLUENCE] = fluence
        /\ file[outcome.value][OPTICAL_MODEL_INITIAL_PRESSURE] = initial_pressure
        /\ file[outcome.value][OPTICAL_MODEL_UNITS] = units

\* a run at 800 nm returned the output path of 800 nm, where the fluence is
C15_Witness ==
    /\ pc = "done"
    /\ settings[WAVELENGTH] = 800
    /\ outcome = Returned(<<"optical_output", ORIGINAL_DATA, 800>>)
    /\ trace = <<"generate_dict_path", "simulate", "load_hdf5", "save_hdf5">>
    /\ file[outcome.value][OPTICAL_MODEL_FLUENCE][1] = Num(3)

(***************************************************************************)
(* get_mcx_config under varying settings: between calls the caller changes *)
(* the settings dictionaries and the arrays it passes.                     *)
(***************************************************************************)
Nanoseconds(k) == Norm(k, NanosecondsPerSecond)

TimeStepChoices == {None, "1ns", "2ns"}

TotalTimeChoices == {None, "7ns", "nan"}

TimeValue(t) == IF t = "1ns" THEN Nanoseconds(1)
                ELSE IF t = "2ns" THEN Nanoseconds(2)
                ELSE IF t = "7ns" THEN Nanoseconds(7)
                ELSE Norm(0, 0)

McxSeed == 11

GlobalSeed == 7

\* the component settings of the adapter; a key whose choice is None is absent
ComponentSettingsOf(dt, time, seed) ==
    (OPTICAL_MODEL_NUMBER_PHOTONS :> NumberOfPhotons)
    @@ (IF dt = None THEN EmptyDict ELSE (TIME_STEP :> TimeValue(dt)))
    @@ (IF time = None THEN EmptyDict ELSE (TOTAL_TIME :> TimeValue(time)))
    @@ (IF seed THEN (MCX_SEED :> McxSeed) ELSE EmptyDict)

ComponentSettingsChoices ==
    {ComponentSettingsOf(dt, time, seed) :
        dt \in TimeStepChoices, time \in TotalTimeChoices, seed \in BOOLEAN}

GlobalSettingsChoices ==
    {(SPACING_MM :> Half) @@ (IF seed THEN (RANDOM_SEED :> GlobalSeed) ELSE EmptyDict) :
        seed \in BOOLEAN}

\* co-shaped arrays along the last axis
ConfigVolumes ==
    {[absorption_cm |-> Ramp(sh, Num(1)), scattering_cm |-> Ramp(sh, Num(100)),
      anisotropy |-> Fill(sh, Norm(9, 10)), refractive_index |-> Fill(sh, Norm(7, 5))] :
        sh \in {x \in Shapes : x[1] = 1 /\ x[2] = 1}}

ConfigInit ==
    /\ CalculateIdle
    /\ OptIdle
    /\ PencilIdle
    /\ ProcessingIdle
    /\ engine_record = EmptyDict
    /\ global_settings \in GlobalSettingsChoices
    /\ component_settings \in ComponentSettingsChoices
    /\ volumes \in ConfigVolumes
    /\ illumination_geometry = IlluminationGeometryBase
    /\ adapter = NewAdapter
    /\ adapter_call = NoCall

\* the caller sets entries of the settings dictionaries the adapter holds,
\* and takes other arrays
CallerChangesInputs ==
    /\ global_settings' \in GlobalSettingsChoices
    /\ component_settings' \in ComponentSettingsChoices
    /\ volumes' \in ConfigVolumes
    /\ UNCHANGED <<optVars, pencilVars, processingVars, calculateVars, illumination_geometry,
                   adapter, adapter_call, engine_record>>

ConfigNext ==
    \/ GetMcxConfig
    \/ CallerChangesInputs

SpecConfig == ConfigInit /\ [][ConfigNext]_vars

\* a get_mcx_config call that returned a configuration
ConfigReturned ==
    adapter_call.op = "get_mcx_config" /\ adapter_call.outcome.kind = "returned"

\* C11: with both timing settings given, the configuration has tstart = 0,
\* tend = total time, tstep = time step, and the adapter's frame count is the
\* quotient total time / time step truncated to an integer; with neither
\* given, tend and tstep are 5 nanoseconds and the frame count is one.
C11_FrameCount ==
    ConfigReturned =>
        LET cs == adapter_call.component_settings
            config == adapter_call.outcome.value
        IN  /\ config.tstart = 0
            /\ (TIME_STEP \in DOMAIN cs /\ TOTAL_TIME \in DOMAIN cs) =>
                  /\ config.tend = cs[TOTAL_TIME]
                  /\ config.tstep = cs[TIME_STEP]
                  /\ adapter.frames \in Nat
                  /\ ~RLess(RDiv(cs[TOTAL_TIME], cs[TIME_STEP]), Num(adapter.frames))
                  /\ RLess(RDiv(cs[TOTAL_TIME], cs[TIME_STEP]), Num(adapter.frames + 1))
            /\ (TIME_STEP \notin DOMAIN cs /\ TOTAL_TIME \notin DOMAIN cs) =>
                  /\ config.tend = [n |-> 1, d |-> 200000000]
                  /\ config.tstep = [n |-> 1, d |-> 200000000]
                  /\ adapter.frames = 1

\* 7 ns in steps of 2 ns: three frames
C11_Witness ==
    /\ ConfigReturned
    /\ TIME_STEP \in DOMAIN adapter_call.component_settings
    /\ TOTAL_TIME \in DOMAIN adapter_call.component_settings
    /\ adapter_call.component_settings[TIME_STEP] = Nanoseconds(2)
    /\ adapter_call.component_settings[TOTAL_TIME] = Nanoseconds(7)
    /\ adapter_call.outcome.value.tend = Nanoseconds(7)
    /\ adapter.frames = 3

\* C25: get_mcx_config uses the time step and the total time of the
\* component settings exactly when both are there; when one of them or both
\* are absent, tend and tstep are 5 nanoseconds and the call returns a
\* configuration without a KeyError.
C25_ExplicitTimingNeedsBoth ==
    adapter_call.op = "get_mcx_config" =>
        LET cs == adapter_call.component_settings
            both == TIME_STEP \in DOMAIN cs /\ TOTAL_TIME \in DOMAIN cs
        IN  /\ (both /\ ConfigReturned) =>
                  /\ adapter_call.outcome.value.tend = cs[TOTAL_TIME]
                  /\ adapter_call.outcome.value.tstep = cs[TIME_STEP]
            /\ ~both =>
                  /\ ConfigReturned
                  /\ adapter_call.outcome.value.tend = DefaultTime
                  /\ adapter_call.outcome.value.tstep = DefaultTime

\* C12: the seed of the configuration is the component settings' MCX seed if
\* there is one; otherwise the global random seed if there is one; otherwise
\* the configuration has no seed entry.
C12_SeedPrecedence ==
    ConfigReturned =>
        LET cs == adapter_call.component_settings
            gs == adapter_call.global_settings
            config == adapter_call.outcome.value
        IN  /\ MCX_SEED \in DOMAIN cs =>
                  "seed" \in DOMAIN config /\ config["seed"] = cs[MCX_SEED]
            /\ (MCX_SEED \notin DOMAIN cs /\ RANDOM_SEED \in DOMAIN gs) =>
                  "seed" \in DOMAIN config /\ config["seed"] = gs[RANDOM_SEED]
            /\ (MCX_SEED \notin DOMAIN cs /\ RANDOM_SEED \notin DOMAIN gs) =>
                  "seed" \notin DOMAIN config

\* both seeds are set and the configuration carries the MCX seed
C12_Witness ==
    /\ ConfigReturned
    /\ MCX_SEED \in DOMAIN adapter_call.component_settings
    /\ RANDOM_SEED \in DOMAIN adapter_call.global_settings
    /\ adapter_call.component_settings[MCX_SEED] = McxSeed
    /\ adapter_call.global_settings[RANDOM_SEED] = GlobalSeed
    /\ adapter_call.outcome.value["seed"] = McxSeed
\* C20: what a get_mcx_config call returns or raises is what the call with
\* the same arrays, geometry and settings returns or raises on an adapter no
\* method was called on before, whatever earlier calls left on the adapter;
\* and the file of the persistence layer is untouched.
C20_ConfigDeterministic ==
    adapter_call.op = "get_mcx_config" =>
        /\ adapter_call.outcome =
              get_mcx_config(NewAdapter, illumination_geometry, adapter_call.args,
                             adapter_call.component_settings,
                             adapter_call.global_settings).outcome
        /\ file = EmptyDict

\* an earlier call left three frames and nz = 2 on the adapter; this call,
\* with other settings and arrays, gave one frame and nz = 1
C20_Witness ==
    /\ ConfigReturned
    /\ adapter_call.self.frames = 3
    /\ adapter_call.self.nz = 2
    /\ adapter.frames = 1
    /\ adapter.nz = 1
    /\ adapter_call.outcome.value.tend = Nanoseconds(5)

(***************************************************************************)
(* parse_pmcx_results on result records of the engine.                     *)
(***************************************************************************)
MaxFrames == 3
FluxCap == 100000

FluxValues == {Norm(1, 100), Norm(1, 2), Num(2)}

\* result records of the engine: a flux over a grid and its time gates
FluxRecords ==
    {[flux |-> [shape |-> sh \o <<T>>,
                data |-> [i \in 1..(Size(sh) * T) |-> RMul(v, Num(i))]]] :
        sh \in Shapes, T \in 1..MaxFrames, v \in FluxValues}

ParseInit ==
    /\ CalculateIdle
    /\ OptIdle
    /\ PencilIdle
    /\ ProcessingIdle
    /\ global_settings = (SPACING_MM :> Half)
    /\ component_settings = (OPTICAL_MODEL_NUMBER_PHOTONS :> NumberOfPhotons)
    /\ volumes = EmptyDict
    /\ illumination_geometry = IlluminationGeometryBase
    /\ adapter = NewAdapter
    /\ adapter_call = NoCall
    /\ engine_record \in FluxRecords

\* a call of parse_pmcx_results with the record the caller holds, while its
\* entries are within the range of the model
ParsePmcxResults ==
    /\ \A i \in DOMAIN engine_record.flux.data :
          RLess(engine_record.flux.data[i], Num(FluxCap))
    /\ \E r \in {parse_pmcx_results(engine_record)} :
          /\ adapter_call' = [op |-> "parse_pmcx_results", args |-> engine_record,
                              component_settings |-> component_settings,
                              global_settings |-> global_settings, self |-> adapter,
                              outcome |-> Returned(r.result), trace |-> <<>>]
          /\ engine_record' = r.pmcx_results
    /\ UNCHANGED <<optVars, settingsVars, pencilVars, processingVars, calculateVars, volumes,
                   illumination_geometry, adapter>>

ParseNext == ParsePmcxResults

SpecParse == ParseInit /\ [][ParseNext]_vars

\* C13: the fluence parse_pmcx_results returns has the flux's shape without
\* its fourth axis when that axis has length one, and the flux's shape with
\* all four axes otherwise; no entry is dropped.
C13_SqueezeSingleFrame ==
    adapter_call.op = "parse_pmcx_results" =>
        LET in == adapter_call.args.flux
            out == adapter_call.outcome.value[DATA_FIELD_FLUENCE]
        IN  /\ in.shape[4] = 1 => out.shape = <<in.shape[1], in.shape[2], in.shape[3]>>
            /\ in.shape[4] > 1 => out.shape = in.shape
            /\ Len(out.data) = Len(in.data)

\* a flux of shape (1, 1, 2, 1) gives a fluence of shape (1, 1, 2)
C13_Witness ==
    /\ adapter_call.op = "parse_pmcx_results"
    /\ adapter_call.args.flux.shape = <<1, 1, 2, 1>>
    /\ adapter_call.outcome.value[DATA_FIELD_FLUENCE].shape = <<1, 1, 2>>

\* C26: the fluence parse_pmcx_results returns is 100 times the flux of the
\* record it was given, entry by entry, and the record the caller holds is
\* after the call what it was before, so that parsing it again gives the
\* same fluence.
C26_ParseLeavesRecordUnchanged ==
    adapter_call.op = "parse_pmcx_results" =>
        LET in == adapter_call.args.flux
            out == adapter_call.outcome.value[DATA_FIELD_FLUENCE]
        IN  /\ \A i \in DOMAIN in.data : out.data[i] = RMul(in.data[i], Num(100))
            /\ engine_record = adapter_call.args
            /\ parse_pmcx_results(engine_record).result = adapter_call.outcome.value

(***************************************************************************)
(* assert_array_well_defined (data_sanity_testing.py)                      *)
(***************************************************************************)
\* a <= b as IEEE compares: false when either side is nan
RLeq(a, b) == ~IsNan(a) /\ ~IsNan(b) /\ ~RLess(b, a)

\* an exception: its class, what the message says about the values and the
\* array name the message gives
ErrorOf(type, error_message, array_name) ==
    [type |-> type, error_message |-> error_message, array_name |-> array_name]

NotSpecified == "'Not specified'"

\* assert_array_well_defined testing for nan alone, not for inf and -inf
assert_array_nan_only(array, assume_non_negativity, assume_positivity, array_name) ==
    LET m1 == IF \E i \in DOMAIN array : IsNan(array[i])
              THEN "nan, inf or -inf" ELSE None
        m2 == IF assume_positivity /\ \E i \in DOMAIN array : RLeq(array[i], Num(0))
              THEN "not positive" ELSE m1
        error_message ==
              IF assume_non_negativity /\ \E i \in DOMAIN array : RLess(array[i], Num(0))
              THEN "negative" ELSE m2
    IN  IF error_message # None
        THEN Raised(ErrorOf("AssertionError", error_message,
                            IF array_name = None THEN NotSpecified ELSE array_name))
        ELSE Returned(None)

\* lines 47-66: the array is the sequence of its entries
assert_array_well_defined(array, assume_non_negativity, assume_positivity, array_name) ==
    LET m1 == IF ~(\A i \in DOMAIN array : IsFinite(array[i]))
              THEN "nan, inf or -inf" ELSE None
        m2 == IF assume_positivity /\ \E i \in DOMAIN array : RLeq(array[i], Num(0))
              THEN "not positive" ELSE m1
        error_message ==
              IF assume_non_negativity /\ \E i \in DOMAIN array : RLess(array[i], Num(0))
              THEN "negative" ELSE m2
    IN  IF error_message # None
        THEN Raised(ErrorOf("AssertionError", error_message,
                            IF array_name = None THEN NotSpecified ELSE array_name))
        ELSE Returned(None)

QALen == 2

QAValues == {Num(-1), Num(0), Num(1), Norm(1, 0), Norm(-1, 0), Norm(0, 0)}

QAArrays == [1..QALen -> QAValues]

ArrayNames == {None, "fluence", "initial_pressure"}

\* the calls of assert_array_well_defined, before they are evaluated
WellDefinedCalls ==
    {[op |-> "assert_array_well_defined",
      args |-> [array |-> array, assume_non_negativity |-> assume_non_negativity,
                assume_positivity |-> assume_positivity, array_name |-> array_name],
      outcome |-> Running] :
        array \in QAArrays, assume_non_negativity \in BOOLEAN,
        assume_positivity \in BOOLEAN, array_name \in ArrayNames}

\* |a|
RAbs(a) == [n |-> AbsInt(a.n), d |-> a.d]

\* the sum of a sequence of numbers
RECURSIVE RSum(_)
RSum(values) == IF values = <<>> THEN Num(0) ELSE RAdd(Head(values), RSum(Tail(values)))

\* the tolerance of line 28
ShapeTolerance == Norm(1, 100000)

\* lines 11-31; an array is given by its shape, the only thing read of it.
\* np.asarray(...).astype(float) of shapes of different lengths raises a
\* ValueError (line 23)
assert_equal_shapes(numpy_arrays) ==
    LET count == Len(numpy_arrays)
        rank == Len(numpy_arrays[1])
        shapes == [i \in 1..count |-> [k \in 1..rank |-> Num(numpy_arrays[i][k])]]
        mean == [k \in 1..rank |-> RDiv(RSum([i \in 1..count |-> shapes[i][k]]), Num(count))]
        centred == [i \in 1..count |-> [k \in 1..rank |-> RSub(shapes[i][k], mean[k])]]
        total == RSum([i \in 1..count |-> RSum([k \in 1..rank |-> RAbs(centred[i][k])])])
    IN  IF count < 2 THEN Returned(None)
        ELSE IF \E i \in 1..count : Len(numpy_arrays[i]) # rank
        THEN Raised(ErrorOf("ValueError", "inhomogeneous shape", None))
        ELSE IF ~RLeq(total, ShapeTolerance)
        THEN Raised(ErrorOf("AssertionError", "The given volumes did not all have the same dimensions.", None))
        ELSE Returned(None)

MaxArrays == 3

MaxRank == 2

Extents == {1, 2}

\* the shapes of the arrays, the shape () of a 0-dimensional array included
ArrayShapes == UNION {[1..r -> Extents] : r \in 0..MaxRank}

\* the calls of assert_equal_shapes, before they are evaluated
EqualShapesCalls ==
    {[op |-> "assert_equal_shapes", args |-> [numpy_arrays |-> arrays], outcome |-> Running] :
        arrays \in UNION {[1..n -> ArrayShapes] : n \in 0..MaxArrays}}

QAInit ==
    /\ CalculateIdle
    /\ OptIdle
    /\ PencilIdle
    /\ AdapterIdle
    /\ SettingsIdle
    /\ time_series_data_field = None
    /\ sensor_run = EmptyDict
    /\ qa_call \in WellDefinedCalls \cup EqualShapesCalls

\* the call of assert_array_well_defined is evaluated
AssertArrayWellDefined ==
    /\ qa_call.op = "assert_array_well_defined"
    /\ qa_call.outcome.kind = "running"
    /\ qa_call' = [qa_call EXCEPT !.outcome =
                      assert_array_well_defined(
                          qa_call.args.array, qa_call.args.assume_non_negativity,
                          qa_call.args.assume_positivity, qa_call.args.array_name)]
    /\ UNCHANGED <<optVars, settingsVars, pencilVars, adapterVars,
                   time_series_data_field, sensor_run, calculateVars>>

\* the call of assert_equal_shapes is evaluated
AssertEqualShapes ==
    /\ qa_call.op = "assert_equal_shapes"
    /\ qa_call.outcome.kind = "running"
    /\ qa_call' = [qa_call EXCEPT !.outcome = assert_equal_shapes(qa_call.args.numpy_arrays)]
    /\ UNCHANGED <<optVars, settingsVars, pencilVars, adapterVars,
                   time_series_data_field, sensor_run, calculateVars>>

QANext == AssertArrayWellDefined \/ AssertEqualShapes

SpecQA == QAInit /\ [][QANext]_vars

\* C18: a call of assert_array_well_defined on an array with a nan, inf or
\* -inf entry raises an AssertionError whose message gives the array name
\* the caller passed; a call with the default options on an array whose
\* entries are all finite raises nothing.
C18_WellDefinedArrays ==
    (qa_call.op = "assert_array_well_defined" /\ qa_call.outcome.kind # "running") =>
        LET array == qa_call.args.array
        IN  /\ (\E i \in DOMAIN array : array[i].d = 0) =>
                  /\ qa_call.outcome.kind = "raised"
                  /\ qa_call.outcome.value.type = "AssertionError"
                  /\ qa_call.args.array_name # None =>
                        qa_call.outcome.value.array_name = qa_call.args.array_name
            /\ (/\ \A i \in DOMAIN array : array[i].d # 0
                /\ ~qa_call.args.assume_non_negativity
                /\ ~qa_call.args.assume_positivity) =>
                  qa_call.outcome = Returned(None)

\* the array (1, -inf) passed as "fluence" with the default options
C18_Witness ==
    /\ qa_call.op = "assert_array_well_defined"
    /\ qa_call.args.array = <<Num(1), Norm(-1, 0)>>
    /\ qa_call.args.array_name = "fluence"
    /\ ~qa_call.args.assume_non_negativity
    /\ ~qa_call.args.assume_positivity
    /\ qa_call.outcome =
          Raised(ErrorOf("AssertionError", "nan, inf or -inf", "fluence"))

\* C23: assert_equal_shapes raises an AssertionError exactly when two of the
\* given arrays have different shapes, and returns without error for fewer
\* than two arrays and for arrays that all have one shape.
C23_AssertionErrorIffShapesDiffer ==
    (qa_call.op = "assert_equal_shapes" /\ qa_call.outcome.kind # "running") =>
        LET arrays == qa_call.args.numpy_arrays
            differ == \E i, j \in DOMAIN arrays : arrays[i] # arrays[j]
        IN  /\ differ <=> (/\ qa_call.outcome.kind = "raised"
                           /\ qa_call.outcome.value.type = "AssertionError")
            /\ ~differ => qa_call.outcome.kind = "returned"

(***************************************************************************)
(* SensorDegradation (realisitic_time_series.py)                           *)
(***************************************************************************)
NSensors == 2
NSamples == 2

OPTICAL_MODEL_SETTINGS == "optical_model_settings"
TRANSFORM_TO_IN_VITRO_DOMAIN == "transform_to_in_vitro_domain"
SCALING_FACTOR == "scaling_factor"
IN_VITRO_LASER_ENERGY == "in_vitro_laser_energy"
BROKEN_SENSORS == "broken_sensors"
OFFSETS == "offsets"
THERMAL_NOISES == "thermal_noises"

\* values of the per-sensor settings: a number, a list or a numpy array
Scalar(v) == [kind |-> "scalar", value |-> v]

ListOf(values) == [kind |-> "list", value |-> values]

NdArray(values) == [kind |-> "ndarray", value |-> values]

\* np.ones(n) * v
OnesTimes(n, v) == [s \in 1..n |-> v]

\* a time series is a sequence of sensors, each a sequence of samples
TsDivScalar(ts, c) == [s \in DOMAIN ts |-> [t \in DOMAIN ts[s] |-> RDiv(ts[s][t], c)]]

TsMulScalar(ts, c) == [s \in DOMAIN ts |-> [t \in DOMAIN ts[s] |-> RMul(ts[s][t], c)]]

\* ndarray.max(): nan if an entry is nan
TsMax(ts) ==
    LET entries == {ts[s][t] : s \in DOMAIN ts, t \in 1..NSamples}
    IN  IF \E x \in entries : IsNan(x) THEN [n |-> 0, d |-> 0]
        ELSE CHOOSE m \in entries : \A x \in entries : ~RLess(m, x)

\* the entries of a time series in row-major order
Flatten(ts) ==
    [i \in 1..(Len(ts) * NSamples) |-> ts[((i - 1) \div NSamples) + 1][((i - 1) % NSamples) + 1]]

\* Settings.get_optical_settings()
get_optical_settings(gs) == gs[OPTICAL_MODEL_SETTINGS]

\* lines 43-56
norm_time_series(gs, time_series, divide_by_maximum) ==
    LET energy == Num(get_optical_settings(gs)[LASER_PULSE_ENERGY_IN_MILLIJOULE])
        corrected == TsDivScalar(time_series, energy)
    IN  IF divide_by_maximum THEN TsDivScalar(corrected, TsMax(corrected)) ELSE corrected

\* numpy's bounds of an index into an axis of length n
IndexInBounds(i, n) == 0 - n <= i /\ i < n

\* the entry an index in bounds stands for: negative indices count from the end
SensorIndex(i, n) == IF i < 0 THEN i + n ELSE i

\* lines 93-130: how the call ends, the component settings and the
\* working_sensors attribute after it
check_input(cs, time_series_data) ==
    LET n_sensors == Len(time_series_data)
        cs1 == IF TRANSFORM_TO_IN_VITRO_DOMAIN \notin DOMAIN cs
               THEN (TRANSFORM_TO_IN_VITRO_DOMAIN :> FALSE) @@ cs ELSE cs
        ones == [s \in 1..n_sensors |-> 1]
        broken == IF BROKEN_SENSORS \in DOMAIN cs THEN cs[BROKEN_SENSORS] ELSE {}
        \* line 110: numpy indexing, -1 is the last sensor
        working_sensors ==
               [s \in 1..n_sensors |->
                   IF \E i \in broken : SensorIndex(i, n_sensors) = s - 1 THEN 0 ELSE 1]
        cs2 == IF OFFSETS \notin DOMAIN cs1 THEN (OFFSETS :> Scalar(Num(0))) @@ cs1 ELSE cs1
        cs3 == IF THERMAL_NOISES \notin DOMAIN cs2
               THEN (THERMAL_NOISES :> Scalar(Num(0))) @@ cs2 ELSE cs2
        cs4 == [cs3 EXCEPT ![OFFSETS] = NdArray(OnesTimes(n_sensors, cs3[OFFSETS].value))]
        cs5 == IF cs4[THERMAL_NOISES].kind = "scalar"
               THEN [cs4 EXCEPT ![THERMAL_NOISES] =
                        NdArray(OnesTimes(n_sensors, cs4[THERMAL_NOISES].value))]
               ELSE cs4
        cs6 == IF cs5[THERMAL_NOISES].kind = "list"
               THEN [cs5 EXCEPT ![THERMAL_NOISES] = NdArray(cs5[THERMAL_NOISES].value)]
               ELSE cs5
    IN  IF \E i \in broken : ~IndexInBounds(i, n_sensors)
        \* line 110, before the defaults of the offsets and the noises
        THEN [outcome |-> Raised(ErrorOf("IndexError", "index is out of bounds for axis 0", None)),
              component_settings |-> cs1, working_sensors |-> ones]
        ELSE IF cs3[OFFSETS].kind # "scalar"
        \* line 123: isinstance with one argument
        THEN [outcome |-> Raised(ErrorOf("TypeError", "isinstance expected 2 arguments, got 1", None)),
              component_settings |-> cs3, working_sensors |-> working_sensors]
        ELSE [outcome |-> Returned(None), component_settings |-> cs6,
              working_sensors |-> working_sensors]

\* lines 81-83
Degrade(ts, working_sensors, offsets, noise, thermal_noises) ==
    [s \in DOMAIN ts |-> [t \in DOMAIN ts[s] |->
        RAdd(RAdd(RMul(ts[s][t], Num(working_sensors[s])), offsets[s]),
             RMul(noise[s][t], thermal_noises[s]))]]

\* line 86: the tag itself, a non-empty constant, is the second operand
QaAssertionsIgnored(gs) == IGNORE_QA_ASSERTIONS \in DOMAIN gs /\ TRUE

\* lines 58-91 with the draws of np.random.normal given: how the call ends
\* and where, the component settings, the stored field, the local
\* time_series_data and the working_sensors attribute after it
run(gs, cs, stored, noise) ==
    LET c == check_input(cs, stored)
        cs1 == c.component_settings
        transform == cs1[TRANSFORM_TO_IN_VITRO_DOMAIN]
        normed == norm_time_series(gs, stored, transform)
        scaled == IF transform
                  THEN TsMulScalar(TsMulScalar(normed, cs1[SCALING_FACTOR]),
                                   cs1[IN_VITRO_LASER_ENERGY])
                  ELSE normed
        degraded == Degrade(scaled, c.working_sensors, cs1[OFFSETS].value, noise,
                            cs1[THERMAL_NOISES].value)
        qa == IF QaAssertionsIgnored(gs) THEN Returned(None)
              ELSE assert_array_well_defined(Flatten(degraded), FALSE, FALSE, None)
    IN  IF c.outcome.kind = "raised"
        THEN [outcome |-> c.outcome, line |-> "L66", component_settings |-> cs1,
              time_series_data_field |-> stored, time_series_data |-> stored,
              working_sensors |-> c.working_sensors]
        ELSE IF transform /\ SCALING_FACTOR \notin DOMAIN cs1
        THEN [outcome |-> Raised(ErrorOf("KeyError", SCALING_FACTOR, None)), line |-> "L73",
              component_settings |-> cs1, time_series_data_field |-> stored,
              time_series_data |-> normed, working_sensors |-> c.working_sensors]
        ELSE IF qa.kind = "raised"
        THEN [outcome |-> qa, line |-> "L87", component_settings |-> cs1,
              time_series_data_field |-> stored, time_series_data |-> degraded,
              working_sensors |-> c.working_sensors]
        ELSE [outcome |-> Returned(None), line |-> "L91", component_settings |-> cs1,
              time_series_data_field |-> degraded, time_series_data |-> degraded,
              working_sensors |-> c.working_sensors]

\* stored time series: all zero, a ramp, a ramp with a nan entry
TimeSeriesChoices ==
    {[s \in 1..NSensors |-> [t \in 1..NSamples |-> Num(0)]],
     [s \in 1..NSensors |-> [t \in 1..NSamples |-> Num(s + t)]],
     [s \in 1..NSensors |-> [t \in 1..NSamples |->
         IF s = 1 /\ t = 1 THEN Norm(0, 0) ELSE Num(s + t)]]}

PulseEnergy == 2

FlagChoices == {None, "True", "False"}

SensorGlobalSettings ==
    {(WAVELENGTH :> 800) @@ (SIMPA_OUTPUT_PATH :> "simpa_output.hdf5")
     @@ (OPTICAL_MODEL_SETTINGS :> (LASER_PULSE_ENERGY_IN_MILLIJOULE :> PulseEnergy))
     @@ (IF flag = None THEN EmptyDict ELSE (IGNORE_QA_ASSERTIONS :> (flag = "True"))) :
        flag \in FlagChoices}

PerSensorChoices == {None, "scalar", "list", "ndarray"}

PerSensorValue(kind, v) ==
    IF kind = "scalar" THEN Scalar(v)
    ELSE IF kind = "list" THEN ListOf(OnesTimes(NSensors, v))
    ELSE NdArray(OnesTimes(NSensors, v))

ScalingFactor == 3

InVitroLaserEnergy == 4

\* broken sensors: none configured, the first sensor, the last sensor by a
\* negative index, an index past the last sensor
BrokenChoices == {None, "first", "last", "outside"}

BrokenValue(b) == IF b = "first" THEN {0} ELSE IF b = "last" THEN {-1} ELSE {NSensors}

SensorComponentSettings ==
    {(IF transform = None THEN EmptyDict
      ELSE (TRANSFORM_TO_IN_VITRO_DOMAIN :> (transform = "True")))
     @@ (IF in_vitro THEN (SCALING_FACTOR :> Num(ScalingFactor))
                          @@ (IN_VITRO_LASER_ENERGY :> Num(InVitroLaserEnergy))
         ELSE EmptyDict)
     @@ (IF offsets = None THEN EmptyDict ELSE (OFFSETS :> PerSensorValue(offsets, Num(2))))
     @@ (IF thermal = None THEN EmptyDict
         ELSE (THERMAL_NOISES :> PerSensorValue(thermal, Num(1))))
     @@ (IF broken = None THEN EmptyDict ELSE (BROKEN_SENSORS :> BrokenValue(broken))) :
        transform \in FlagChoices, in_vitro \in BOOLEAN, offsets \in PerSensorChoices,
        thermal \in PerSensorChoices, broken \in BrokenChoices}

\* draws of np.random.normal(size=time_series_data.shape)
NoiseValues == {Num(-1), Num(1)}

NoiseDraws == [1..NSensors -> [1..NSamples -> NoiseValues]]

NoRun ==
    [op |-> "none", before |-> None, component_settings_before |-> None,
     outcome |-> Running, line |-> None, time_series_data |-> None,
     working_sensors |-> None]

SensorInit ==
    /\ CalculateIdle
    /\ OptIdle
    /\ PencilIdle
    /\ AdapterIdle
    /\ global_settings \in SensorGlobalSettings
    /\ component_settings \in SensorComponentSettings
    /\ time_series_data_field \in TimeSeriesChoices
    /\ sensor_run = NoRun
    /\ qa_call = EmptyDict

\* lines 58-91, a call of run
SensorDegradationRun ==
    \E noise \in NoiseDraws :
    \E r \in {run(global_settings, component_settings, time_series_data_field, noise)} :
        /\ sensor_run' = [op |-> "run", before |-> time_series_data_field,
                          component_settings_before |-> component_settings,
                          outcome |-> r.outcome, line |-> r.line,
                          time_series_data |-> r.time_series_data,
                          working_sensors |-> r.working_sensors]
        /\ component_settings' = r.component_settings
        /\ time_series_data_field' = r.time_series_data_field
        /\ UNCHANGED <<optVars, pencilVars, adapterVars, global_settings, qa_call,
                       calculateVars>>

\* lines 93-130, a call of check_input by a caller, with the stored time
\* series: the component settings and working_sensors change, the stored
\* field does not
SensorDegradationCheckInput ==
    \E c \in {check_input(component_settings, time_series_data_field)} :
        /\ sensor_run' = [op |-> "check_input", before |-> time_series_data_field,
                          component_settings_before |-> component_settings,
                          outcome |-> c.outcome,
                          line |-> IF c.outcome.kind = "returned" THEN "L130"
                                   ELSE IF c.outcome.value.type = "IndexError" THEN "L110"
                                   ELSE "L123",
                          time_series_data |-> time_series_data_field,
                          working_sensors |-> c.working_sensors]
        /\ component_settings' = c.component_settings
        /\ UNCHANGED <<optVars, pencilVars, adapterVars, global_settings, qa_call,
                       calculateVars, time_series_data_field>>

SensorNext == SensorDegradationRun \/ SensorDegradationCheckInput

SpecSensor == SensorInit /\ [][SensorNext]_vars

\* the bypass flag is in the global settings with a true value
QaBypassed ==
    IGNORE_QA_ASSERTIONS \in DOMAIN global_settings
    /\ global_settings[IGNORE_QA_ASSERTIONS] = TRUE

\* a run came to its sanity check with a time series that has a nan, inf or
\* -inf entry
DegradedNonFinite ==
    /\ sensor_run.op = "run"
    /\ sensor_run.line \in {"L87", "L91"}
    /\ \E s \in 1..NSensors, t \in 1..NSamples : sensor_run.time_series_data[s][t].d = 0

\* C17: when the bypass flag is absent from the global settings or false, a
\* run whose degraded time series is not finite ends with an AssertionError
\* and the stored time series is what it was before the run.
C17_BypassOnlyWhenFlagTrue ==
    (DegradedNonFinite /\ ~QaBypassed) =>
        /\ sensor_run.outcome.kind = "raised"
        /\ sensor_run.outcome.value.type = "AssertionError"
        /\ time_series_data_field = sensor_run.before

\* the configured broken sensors of the call are sensors of the time series
BrokenInBounds ==
    BROKEN_SENSORS \in DOMAIN sensor_run.component_settings_before =>
        \A i \in sensor_run.component_settings_before[BROKEN_SENSORS] :
            0 - NSensors <= i /\ i < NSensors

\* C24: check_input accepts offsets and thermal noises given as a scalar, a
\* list or an array: it returns, called by run or by another caller, and
\* then both settings are arrays of length n_sensors, all zero where the
\* setting was absent, and working_sensors is 0 at the broken sensors and 1
\* elsewhere, for broken sensors that are indices of the time series.
C24_CheckInputAcceptsPerSensorSettings ==
    (sensor_run.op \in {"run", "check_input"} /\ BrokenInBounds) =>
        LET given == sensor_run.component_settings_before
            zeros == NdArray(OnesTimes(NSensors, Num(0)))
        IN  /\ sensor_run.line \notin {"L66", "L123"}
            /\ \A tag \in {OFFSETS, THERMAL_NOISES} :
                  /\ component_settings[tag].kind = "ndarray"
                  /\ Len(component_settings[tag].value) = NSensors
                  /\ tag \notin DOMAIN given => component_settings[tag] = zeros
            /\ \A s \in 1..NSensors :
                  sensor_run.working_sensors[s] =
                      IF /\ BROKEN_SENSORS \in DOMAIN given
                         /\ \E i \in given[BROKEN_SENSORS] : (i - (s - 1)) % NSensors = 0
                      THEN 0 ELSE 1

(***************************************************************************)
(* calculate_oxygenation and min_max_normalization (calculate.py)          *)
(***************************************************************************)
\* None where a number or an array may stand: a record, as they are
NoValue == [kind |-> "NoneType"]

\* the threshold of line 32 is 10^-EpsilonExponent
EpsilonExponent == 10

\* x < 10^-k, comparing 10 * x with 10^-(k - 1) while x lies in (0, 1)
RECURSIVE LessThanTenToMinus(_, _)
LessThanTenToMinus(x, k) ==
    IF IsNan(x) THEN FALSE
    ELSE IF ~RLess(Num(0), x) THEN TRUE
    ELSE IF ~RLess(x, Num(1)) THEN FALSE
    ELSE IF k = 0 THEN TRUE
    ELSE LessThanTenToMinus(RMul(x, Num(10)), k - 1)

Deoxyhemoglobin == "Deoxyhemoglobin"

Oxyhemoglobin == "Oxyhemoglobin"

\* the places of the molecules with a given spectrum name
WithSpectrum(molecule_list, spectrum_name) ==
    {i \in DOMAIN molecule_list : molecule_list[i].spectrum.spectrum_name = spectrum_name}

\* the largest element of a non-empty set of integers
Last(S) == CHOOSE i \in S : \A j \in S : j <= i

\* lines 11-35: the loop keeps the volume fraction of the last molecule of
\* each of the two spectra; a spectrum that no molecule has is None (lines
\* 15-16) and, when the other one is there, counts as 0 (lines 27-30)
calculate_oxygenation(molecule_list) ==
    LET deoxy == WithSpectrum(molecule_list, Deoxyhemoglobin)
        oxy == WithSpectrum(molecule_list, Oxyhemoglobin)
        hb == IF deoxy = {} THEN Num(0) ELSE molecule_list[Last(deoxy)].volume_fraction
        hbO2 == IF oxy = {} THEN Num(0) ELSE molecule_list[Last(oxy)].volume_fraction
    IN  IF deoxy = {} /\ oxy = {} THEN Returned(NoValue)
        ELSE IF LessThanTenToMinus(RAdd(hb, hbO2), EpsilonExponent) THEN Returned(NoValue)
        ELSE Returned(RDiv(hbO2, RAdd(hb, hbO2)))

\* np.min(data) and np.max(data): nan if an entry is nan
ArrayMin(values) ==
    IF \E i \in DOMAIN values : IsNan(values[i]) THEN [n |-> 0, d |-> 0]
    ELSE values[CHOOSE i \in DOMAIN values : \A j \in DOMAIN values : ~RLess(values[j], values[i])]

ArrayMax(values) ==
    IF \E i \in DOMAIN values : IsNan(values[i]) THEN [n |-> 0, d |-> 0]
    ELSE values[CHOOSE i \in DOMAIN values : \A j \in DOMAIN values : ~RLess(values[i], values[j])]

\* lines 195-211: numpy divides 0 by 0 to nan and does not raise
min_max_normalization(data) ==
    IF data = NoValue
    THEN Raised(ErrorOf("AttributeError", "Data must not be none in order to normalize it.", None))
    ELSE IF Len(data.value) = 0
    \* line 207: np.min of an array without entries
    THEN Raised(ErrorOf("ValueError",
                        "zero-size array to reduction operation minimum which has no identity",
                        None))
    ELSE LET _min == ArrayMin(data.value)
             _max == ArrayMax(data.value)
         IN  Returned(NdArray([i \in DOMAIN data.value |->
                                  RDiv(RSub(data.value[i], _min), RSub(_max, _min))]))

MaxMolecules == 2

SpectrumNames == {Deoxyhemoglobin, Oxyhemoglobin, "Water"}

VolumeFractions == {Norm(-1, 2), Num(0), Norm(1, 4), Num(1)}

Molecules ==
    {[spectrum |-> [spectrum_name |-> s], volume_fraction |-> v] :
        s \in SpectrumNames, v \in VolumeFractions}

MoleculeLists == UNION {[1..n -> Molecules] : n \in 0..MaxMolecules}

NormLen == 2

NormValues == {Num(-1), Num(0), Num(1), Num(3)}

\* None, and arrays of up to NormLen entries, the array without entries included
NormInputs == {NoValue} \cup {NdArray(a) : a \in UNION {[1..n -> NormValues] : n \in 0..NormLen}}

\* the calls of the two functions before they are evaluated
CalculateCalls ==
    {[op |-> "calculate_oxygenation", args |-> m, outcome |-> Running] : m \in MoleculeLists}
    \cup {[op |-> "min_max_normalization", args |-> d, outcome |-> Running] : d \in NormInputs}

CalculateInit ==
    /\ OptIdle
    /\ PencilIdle
    /\ AdapterIdle
    /\ SettingsIdle
    /\ ProcessingIdle
    /\ calculate_call \in CalculateCalls

CalculateOxygenation ==
    /\ calculate_call.op = "calculate_oxygenation"
    /\ calculate_call.outcome.kind = "running"
    /\ calculate_call' =
          [calculate_call EXCEPT !.outcome = calculate_oxygenation(calculate_call.args)]
    /\ UNCHANGED <<optVars, settingsVars, pencilVars, adapterVars, processingVars>>

MinMaxNormalization ==
    /\ calculate_call.op = "min_max_normalization"
    /\ calculate_call.outcome.kind = "running"
    /\ calculate_call' =
          [calculate_call EXCEPT !.outcome = min_max_normalization(calculate_call.args)]
    /\ UNCHANGED <<optVars, settingsVars, pencilVars, adapterVars, processingVars>>

CalculateNext == CalculateOxygenation \/ MinMaxNormalization

SpecCalculate == CalculateInit /\ [][CalculateNext]_vars

\* a call of one of the two functions has returned
CalculateReturned(op) ==
    /\ calculate_call.op = op
    /\ calculate_call.outcome.kind = "returned"

\* 0 <= x <= 1
InUnitInterval(x) == RLeq(Num(0), x) /\ RLeq(x, Num(1))

\* C21: for every molecule list calculate_oxygenation returns None or a
\* value between 0 and 1 inclusive; it returns None when the list has neither
\* deoxy- nor oxyhemoglobin, and a value only when one of them is there.
C21_OxygenationInUnitInterval ==
    CalculateReturned("calculate_oxygenation") =>
        LET r == calculate_call.outcome.value
            present == WithSpectrum(calculate_call.args, Deoxyhemoglobin)
                       \cup WithSpectrum(calculate_call.args, Oxyhemoglobin)
        IN  /\ r = NoValue \/ InUnitInterval(r)
            /\ present = {} => r = NoValue

\* C22: for every array min_max_normalization returns an array of the same
\* length whose values all lie between 0 and 1 inclusive, an array of equal
\* entries included; for None it raises an AttributeError.
C22_NormalizedInUnitInterval ==
    /\ CalculateReturned("min_max_normalization") =>
          /\ calculate_call.args # NoValue
          /\ LET output == calculate_call.outcome.value.value
             IN  /\ DOMAIN output = DOMAIN calculate_call.args.value
                 /\ \A i \in DOMAIN output : InUnitInterval(output[i])
    /\ (calculate_call.op = "min_max_normalization" /\ calculate_call.outcome.kind = "raised") =>
          /\ calculate_call.args = NoValue
          /\ calculate_call.outcome.value.type = "AttributeError"

(***************************************************************************)
(* positive_gauss (calculate.py)                                           *)
(***************************************************************************)
\* how many calls of positive_gauss may be active at once before the
\* interpreter raises RecursionError (sys.getrecursionlimit(), scaled down)
RecursionLimit == 3

MaxDraw == 3

MaxMean == 2

MaxStd == 2

\* the values np.random.normal(mean, std) may give: with std = 0 the mean
\* alone, with std > 0 every float whatever the mean, here the halves up to
\* MaxDraw in size
NormalDraws(mean, std) ==
    IF std = Num(0) THEN {mean}
    ELSE {Norm(k, 2) : k \in (0 - 2 * MaxDraw)..(2 * MaxDraw)}

\* the calls of positive_gauss when they are entered, with one active call
\* and nothing drawn or returned yet; std is not negative
GaussCalls ==
    {[op |-> "positive_gauss", args |-> [mean |-> Num(mean), std |-> Num(std)],
      depth |-> 1, random_value |-> NoValue,
      outcome |-> [kind |-> "running", value |-> NoValue]] :
        mean \in (0 - MaxMean)..MaxMean, std \in 0..MaxStd}

GaussInit ==
    /\ OptIdle
    /\ PencilIdle
    /\ AdapterIdle
    /\ SettingsIdle
    /\ ProcessingIdle
    /\ calculate_call \in GaussCalls

\* lines 222 and 225-226: the innermost call draws a positive value, and it
\* and all the calls that wait for it return that value
DrawPositive ==
    /\ calculate_call.op = "positive_gauss"
    /\ calculate_call.outcome.kind = "running"
    /\ \E random_value \in NormalDraws(calculate_call.args.mean, calculate_call.args.std) :
          /\ ~RLeq(random_value, Num(0))
          /\ calculate_call' = [calculate_call EXCEPT !.random_value = random_value,
                                                      !.outcome = Returned(random_value)]
    /\ UNCHANGED <<optVars, settingsVars, pencilVars, adapterVars, processingVars>>

\* lines 222-224: the innermost call draws a value <= 0 and calls
\* positive_gauss again; at the recursion limit that call raises
\* RecursionError, which no caller catches
DrawNonPositive ==
    /\ calculate_call.op = "positive_gauss"
    /\ calculate_call.outcome.kind = "running"
    /\ \E random_value \in NormalDraws(calculate_call.args.mean, calculate_call.args.std) :
          /\ RLeq(random_value, Num(0))
          /\ calculate_call' =
                IF calculate_call.depth < RecursionLimit
                THEN [calculate_call EXCEPT !.random_value = random_value,
                                            !.depth = calculate_call.depth + 1]
                ELSE [calculate_call EXCEPT !.random_value = random_value,
                         !.outcome = Raised(ErrorOf("RecursionError",
                                              "maximum recursion depth exceeded", None))]
    /\ UNCHANGED <<optVars, settingsVars, pencilVars, adapterVars, processingVars>>

GaussNext == DrawPositive \/ DrawNonPositive

\* fair sampling: a call that is running draws, and a positive draw that is
\* possible again and again is made at some time
SpecGauss ==
    GaussInit /\ [][GaussNext]_vars /\ WF_vars(GaussNext) /\ SF_vars(DrawPositive)

\* np.random.normal(mean, std) can give a positive value
PositiveDrawPossible ==
    /\ calculate_call.op = "positive_gauss"
    /\ \E v \in NormalDraws(calculate_call.args.mean, calculate_call.args.std) :
          RLess(Num(0), v)

GaussReturned ==
    calculate_call.op = "positive_gauss" /\ calculate_call.outcome.kind = "returned"

\* C27: positive_gauss returns only values greater than 0; under fair
\* sampling it returns at some time whenever a positive draw is possible, and
\* it never returns when no positive draw is possible.
C27_ReturnsWhenPositiveDrawPossible ==
    /\ [](GaussReturned => RLess(Num(0), calculate_call.outcome.value))
    /\ [](GaussReturned => PositiveDrawPossible)
    /\ (PositiveDrawPossible ~> GaussReturned)

=============================================================================
